---- MODULE Spec2Model ----
(***************************************************************************)
(* Model of the mcp-mem0 administration glue:                              *)
(*   - the provider-configuration builder get_mem0_client, in its two      *)
(*     copies (src/utils.py and scripts/mem0_memory_manager.py);           *)
(*   - MemoryManager, the memory manager of scripts/mem0_memory_manager.py;*)
(*   - the collection commands of scripts/qdrant_manager.py.               *)
(* The memory library (mem0) and the vector database (Qdrant) are external:*)
(* they are modelled by the data they hold and by calls that may raise.    *)
(***************************************************************************)
EXTENDS Integers, Sequences, FiniteSets, TLC

VARIABLES
    environ,      \* os.environ: variable name -> value, None when unset
    build,        \* what the last run of a configuration builder produced
    store,        \* the memory records held by the external memory store
    mop,          \* what the last MemoryManager operation did
    collections,  \* the vector database: collection name -> its point ids
    qop,          \* what the last qdrant_manager command did
    cli           \* the run of mem0_memory_manager.py's main(), if any

vars == <<environ, build, store, mop, collections, qop, cli>>

(***************************************************************************)
(* Python values.                                                          *)
(***************************************************************************)
\* Python's None: what os.getenv returns for an unset variable.
None == "<None>"

\* Python truthiness of an optional string: None and '' are false.
Truthy(v) == v # None /\ v # ""

\* Mutant of Or: the fallback is dropped.
Or_NoFallback(a, b) == a

\* `a or b` on optional strings.
Or(a, b) == IF Truthy(a) THEN a ELSE b

\* os.getenv(name) / os.environ.get(name)
getenv(env, name) == env[name]

\* os.getenv(name, default): the default only replaces an unset variable.
getenv_default(env, name, default) ==
    IF env[name] = None THEN default ELSE env[name]

\* dict[key] = value on a dictionary modelled as a function.
DictSet(d, key, value) == (key :> value) @@ d

EmptyDict == <<>>

(***************************************************************************)
(* The environment variables the programs read, and the values tried.      *)
(***************************************************************************)
EnvVars ==
    {"LLM_PROVIDER", "LLM_API_KEY", "LLM_CHOICE", "EMBEDDING_MODEL_CHOICE",
     "LLM_BASE_URL", "VECTOR_STORE_PROVIDER", "OPENAI_API_KEY",
     "OPENROUTER_API_KEY", "DATABASE_URL", "QDRANT_URL", "QDRANT_API_KEY",
     "QDRANT_COLLECTION_NAME", "EMBEDDING_DIMS"}

SupportedProviders == {"openai", "openrouter", "github_copilot", "ollama"}

\* supported names, an unrecognised name, and the variable unset
ProviderValues == SupportedProviders \cup {"anthropic", None}

ApiKeyValues == {None, "", "sk-new"}
ModelValues == {None, "", "my-model"}
EmbeddingModelValues == {None, "my-embedder"}
BaseUrlValues == {None, "http://localhost:11434"}
SelectorValues == {None, "qdrant", "supabase", "QDRANT"}
OpenAiKeyValues == {None, "", "sk-old"}
OpenRouterKeyValues == {None, "sk-or-old"}
DatabaseUrlValues == {None, "postgresql://db"}
QdrantUrlValues == {None, "https://qdrant.example"}
QdrantKeyValues == {None, "qd-key"}
CollectionNameValues == {None, "custom"}
EmbeddingDimsValues == {None, "768", "abc"}

\* An environment with every variable unset.
EmptyEnviron == [v \in EnvVars |-> None]

(***************************************************************************)
(* Fixed parameters of the builders.                                       *)
(***************************************************************************)
\* temperature 0.2, kept exact as the fraction 2/10
Temperature == <<2, 10>>
MaxTokens == 2000
DefaultDims == 1536

(***************************************************************************)
(* get_mem0_client of src/utils.py.  Each step takes and returns the pair  *)
(* [config, environ]: the dictionary being built and the process           *)
(* environment, which the builder mutates.                                 *)
(***************************************************************************)
\* Mutant of utils_PropagateCredentials: OPENAI_API_KEY is set without
\* looking at what it holds.
utils_PropagateCredentials_Overwriting(env) ==
    LET llm_provider == getenv(env, "LLM_PROVIDER")
        llm_api_key == getenv(env, "LLM_API_KEY")
        env1 == IF Truthy(llm_api_key)
                THEN [env EXCEPT !["OPENAI_API_KEY"] = llm_api_key]
                ELSE env
        env2 == IF llm_provider = "openrouter" /\ Truthy(llm_api_key)
                THEN [env1 EXCEPT !["OPENROUTER_API_KEY"] = llm_api_key]
                ELSE env1
    IN  env2

\* Mutant of utils_PropagateCredentials: only the openrouter variable is
\* set.
utils_PropagateCredentials_OpenRouterOnly(env) ==
    LET llm_provider == getenv(env, "LLM_PROVIDER")
        llm_api_key == getenv(env, "LLM_API_KEY")
    IN  IF llm_provider = "openrouter" /\ Truthy(llm_api_key)
        THEN [env EXCEPT !["OPENROUTER_API_KEY"] = llm_api_key]
        ELSE env

\* utils.py 39-45: the API key propagated into the process environment,
\* in the openai / openrouter branch
utils_PropagateCredentials(env) ==
    LET llm_provider == getenv(env, "LLM_PROVIDER")
        llm_api_key == getenv(env, "LLM_API_KEY")
        \* 40-41: only when OPENAI_API_KEY is not already set
        env1 == IF Truthy(llm_api_key) /\ ~Truthy(getenv(env, "OPENAI_API_KEY"))
                THEN [env EXCEPT !["OPENAI_API_KEY"] = llm_api_key]
                ELSE env
        \* 44-45: for openrouter, whatever OPENROUTER_API_KEY held
        env2 == IF llm_provider = "openrouter" /\ Truthy(llm_api_key)
                THEN [env1 EXCEPT !["OPENROUTER_API_KEY"] = llm_api_key]
                ELSE env1
    IN  env2

\* utils.py 28-70: the "llm" section and the credential propagation
utils_ConfigureLlm(st) ==
    LET env == st.environ
        llm_provider == getenv(env, "LLM_PROVIDER")
        llm_model == getenv(env, "LLM_CHOICE")
        llm_base_url == getenv(env, "LLM_BASE_URL")
    IN  IF llm_provider = "openai" \/ llm_provider = "openrouter"
        THEN LET cfg == DictSet(st.config, "llm",
                     [provider |-> "openai",
                      config |-> [model |-> llm_model,
                                  temperature |-> Temperature,
                                  max_tokens |-> MaxTokens]])
             IN  [config |-> cfg, environ |-> utils_PropagateCredentials(env)]
        ELSE IF llm_provider = "github_copilot"
        THEN [config |-> DictSet(st.config, "llm",
                  [provider |-> "litellm",
                   config |-> [model |-> Or(llm_model, "github_copilot/gpt-4o"),
                               temperature |-> Temperature,
                               max_tokens |-> MaxTokens]]),
              environ |-> env]
        ELSE IF llm_provider = "ollama"
        THEN LET base == [model |-> llm_model,
                          temperature |-> Temperature,
                          max_tokens |-> MaxTokens]
                 params == IF Truthy(llm_base_url)
                           THEN DictSet(base, "ollama_base_url", llm_base_url)
                           ELSE base
             IN  [config |-> DictSet(st.config, "llm",
                      [provider |-> "ollama", config |-> params]),
                  environ |-> env]
        ELSE st

\* Mutant of utils_ConfigureEmbedder: the openai branch also takes
\* openrouter, as the llm branch does.
utils_ConfigureEmbedder_OpenRouterToo(st) ==
    LET env == st.environ
        llm_provider == getenv(env, "LLM_PROVIDER")
        llm_api_key == getenv(env, "LLM_API_KEY")
        embedding_model == getenv(env, "EMBEDDING_MODEL_CHOICE")
        embedding_base_url == getenv(env, "LLM_BASE_URL")
    IN  IF llm_provider = "openai" \/ llm_provider = "openrouter"
        THEN [config |-> DictSet(st.config, "embedder",
                  [provider |-> "openai",
                   config |-> [model |-> Or(embedding_model, "text-embedding-3-small"),
                               embedding_dims |-> 1536]]),
              environ |-> IF Truthy(llm_api_key)
                             /\ ~Truthy(getenv(env, "OPENAI_API_KEY"))
                          THEN [env EXCEPT !["OPENAI_API_KEY"] = llm_api_key]
                          ELSE env]
        ELSE IF llm_provider = "github_copilot"
        THEN [config |-> DictSet(st.config, "embedder",
                  [provider |-> "github_copilot",
                   config |-> [model |-> Or(embedding_model,
                                            "github_copilot/text-embedding-3-small"),
                               embedding_dims |-> 1536]]),
              environ |-> env]
        ELSE IF llm_provider = "ollama"
        THEN LET base == [model |-> Or(embedding_model, "nomic-embed-text"),
                          embedding_dims |-> 768]
                 params == IF Truthy(embedding_base_url)
                           THEN DictSet(base, "ollama_base_url", embedding_base_url)
                           ELSE base
             IN  [config |-> DictSet(st.config, "embedder",
                      [provider |-> "ollama", config |-> params]),
                  environ |-> env]
        ELSE st

\* utils.py 72-107: the "embedder" section
utils_ConfigureEmbedder(st) ==
    LET env == st.environ
        llm_provider == getenv(env, "LLM_PROVIDER")
        llm_api_key == getenv(env, "LLM_API_KEY")
        embedding_model == getenv(env, "EMBEDDING_MODEL_CHOICE")
        embedding_base_url == getenv(env, "LLM_BASE_URL")
    IN  IF llm_provider = "openai"
        THEN [config |-> DictSet(st.config, "embedder",
                  [provider |-> "openai",
                   config |-> [model |-> Or(embedding_model, "text-embedding-3-small"),
                               embedding_dims |-> 1536]]),
              \* 83-84: only when OPENAI_API_KEY is not already set
              environ |-> IF Truthy(llm_api_key)
                             /\ ~Truthy(getenv(env, "OPENAI_API_KEY"))
                          THEN [env EXCEPT !["OPENAI_API_KEY"] = llm_api_key]
                          ELSE env]
        ELSE IF llm_provider = "github_copilot"
        THEN [config |-> DictSet(st.config, "embedder",
                  [provider |-> "github_copilot",
                   config |-> [model |-> Or(embedding_model,
                                            "github_copilot/text-embedding-3-small"),
                               embedding_dims |-> 1536]]),
              environ |-> env]
        ELSE IF llm_provider = "ollama"
        THEN LET base == [model |-> Or(embedding_model, "nomic-embed-text"),
                          embedding_dims |-> 768]
                 params == IF Truthy(embedding_base_url)
                           THEN DictSet(base, "ollama_base_url", embedding_base_url)
                           ELSE base
             IN  [config |-> DictSet(st.config, "embedder",
                      [provider |-> "ollama", config |-> params]),
                  environ |-> env]
        ELSE st

\* utils.py 110-114: the dimensionality handed to the vector store
utils_embedding_dims(env) ==
    LET llm_provider == getenv(env, "LLM_PROVIDER")
    IN  IF llm_provider = "openai" \/ llm_provider = "github_copilot"
        THEN 1536
        ELSE IF llm_provider = "ollama" THEN 768 ELSE DefaultDims

\* Mutant of utils_ConfigureVectorStore: the selector is not looked at.
utils_ConfigureVectorStore_SupabaseOnly(st) ==
    LET env == st.environ
        llm_provider == getenv(env, "LLM_PROVIDER")
        embedding_dims == IF llm_provider = "ollama" THEN 768 ELSE 1536
    IN  [config |-> DictSet(st.config, "vector_store",
             [provider |-> "supabase",
              config |-> [connection_string |->
                              getenv_default(env, "DATABASE_URL", ""),
                          collection_name |-> "mem0_memories",
                          embedding_model_dims |-> embedding_dims]]),
         environ |-> env]

\* utils.py 117-139: the "vector_store" section, selected by
\* VECTOR_STORE_PROVIDER (default 'supabase')
\* Mutant of utils_ConfigureVectorStore: a qdrant backend without its URL
\* is rejected, no section is produced.
utils_ConfigureVectorStore_RejectingUnset(st) ==
    LET env == st.environ
        embedding_dims == utils_embedding_dims(env)
        vector_store_provider == getenv_default(env, "VECTOR_STORE_PROVIDER", "supabase")
    IN  IF vector_store_provider = "qdrant"
        THEN IF getenv(env, "QDRANT_URL") = None THEN st
             ELSE [config |-> DictSet(st.config, "vector_store",
                  [provider |-> "qdrant",
                   config |-> [collection_name |->
                                   getenv_default(env, "QDRANT_COLLECTION_NAME",
                                                  "mem0_memories"),
                               embedding_model_dims |-> embedding_dims,
                               url |-> getenv(env, "QDRANT_URL"),
                               api_key |-> getenv(env, "QDRANT_API_KEY")]]),
              environ |-> env]
        ELSE [config |-> DictSet(st.config, "vector_store",
                  [provider |-> "supabase",
                   config |-> [connection_string |->
                                   getenv_default(env, "DATABASE_URL", ""),
                               collection_name |-> "mem0_memories",
                               embedding_model_dims |-> embedding_dims]]),
              environ |-> env]

utils_ConfigureVectorStore(st) ==
    LET env == st.environ
        embedding_dims == utils_embedding_dims(env)
        vector_store_provider == getenv_default(env, "VECTOR_STORE_PROVIDER", "supabase")
    IN  IF vector_store_provider = "qdrant"
        THEN [config |-> DictSet(st.config, "vector_store",
                  [provider |-> "qdrant",
                   config |-> [collection_name |->
                                   getenv_default(env, "QDRANT_COLLECTION_NAME",
                                                  "mem0_memories"),
                               embedding_model_dims |-> embedding_dims,
                               url |-> getenv(env, "QDRANT_URL"),
                               api_key |-> getenv(env, "QDRANT_API_KEY")]]),
              environ |-> env]
        ELSE [config |-> DictSet(st.config, "vector_store",
                  [provider |-> "supabase",
                   config |-> [connection_string |->
                                   getenv_default(env, "DATABASE_URL", ""),
                               collection_name |-> "mem0_memories",
                               embedding_model_dims |-> embedding_dims]]),
              environ |-> env]

\* utils.py 18-141: the configuration handed to Memory.from_config and the
\* environment the builder leaves behind
utils_get_mem0_client(env) ==
    utils_ConfigureVectorStore(
        utils_ConfigureEmbedder(
            utils_ConfigureLlm([config |-> EmptyDict, environ |-> env])))

(***************************************************************************)
(* get_mem0_client of scripts/mem0_memory_manager.py: the second copy of   *)
(* the builder, translated from its own source lines.                      *)
(***************************************************************************)
\* mem0_memory_manager.py 79-85: the API key propagated into the process environment,
\* in the openai / openrouter branch
mgr_PropagateCredentials(env) ==
    LET llm_provider == getenv(env, "LLM_PROVIDER")
        llm_api_key == getenv(env, "LLM_API_KEY")
        \* 80-81: only when OPENAI_API_KEY is not already set
        env1 == IF Truthy(llm_api_key) /\ ~Truthy(getenv(env, "OPENAI_API_KEY"))
                THEN [env EXCEPT !["OPENAI_API_KEY"] = llm_api_key]
                ELSE env
        \* 84-85: for openrouter, whatever OPENROUTER_API_KEY held
        env2 == IF llm_provider = "openrouter" /\ Truthy(llm_api_key)
                THEN [env1 EXCEPT !["OPENROUTER_API_KEY"] = llm_api_key]
                ELSE env1
    IN  env2

\* mem0_memory_manager.py 68-110: the "llm" section
mgr_ConfigureLlm(st) ==
    LET env == st.environ
        llm_provider == getenv(env, "LLM_PROVIDER")
        llm_model == getenv(env, "LLM_CHOICE")
        llm_base_url == getenv(env, "LLM_BASE_URL")
    IN  IF llm_provider = "openai" \/ llm_provider = "openrouter"
        THEN LET cfg == DictSet(st.config, "llm",
                     [provider |-> "openai",
                      config |-> [model |-> llm_model,
                                  temperature |-> Temperature,
                                  max_tokens |-> MaxTokens]])
             IN  [config |-> cfg, environ |-> mgr_PropagateCredentials(env)]
        ELSE IF llm_provider = "github_copilot"
        THEN [config |-> DictSet(st.config, "llm",
                  [provider |-> "litellm",
                   config |-> [model |-> Or(llm_model, "github_copilot/gpt-4o"),
                               temperature |-> Temperature,
                               max_tokens |-> MaxTokens]]),
              environ |-> env]
        ELSE IF llm_provider = "ollama"
        THEN LET base == [model |-> llm_model,
                          temperature |-> Temperature,
                          max_tokens |-> MaxTokens]
                 params == IF Truthy(llm_base_url)
                           THEN DictSet(base, "ollama_base_url", llm_base_url)
                           ELSE base
             IN  [config |-> DictSet(st.config, "llm",
                      [provider |-> "ollama", config |-> params]),
                  environ |-> env]
        ELSE st

\* mem0_memory_manager.py 112-147: the "embedder" section
mgr_ConfigureEmbedder(st) ==
    LET env == st.environ
        llm_provider == getenv(env, "LLM_PROVIDER")
        llm_api_key == getenv(env, "LLM_API_KEY")
        embedding_model == getenv(env, "EMBEDDING_MODEL_CHOICE")
        embedding_base_url == getenv(env, "LLM_BASE_URL")
    IN  IF llm_provider = "openai"
        THEN [config |-> DictSet(st.config, "embedder",
                  [provider |-> "openai",
                   config |-> [model |-> Or(embedding_model, "text-embedding-3-small"),
                               embedding_dims |-> 1536]]),
              \* 123-124
              environ |-> IF Truthy(llm_api_key)
                             /\ ~Truthy(getenv(env, "OPENAI_API_KEY"))
                          THEN [env EXCEPT !["OPENAI_API_KEY"] = llm_api_key]
                          ELSE env]
        ELSE IF llm_provider = "github_copilot"
        THEN [config |-> DictSet(st.config, "embedder",
                  [provider |-> "github_copilot",
                   config |-> [model |-> Or(embedding_model,
                                            "github_copilot/text-embedding-3-small"),
                               embedding_dims |-> 1536]]),
              environ |-> env]
        ELSE IF llm_provider = "ollama"
        THEN LET base == [model |-> Or(embedding_model, "nomic-embed-text"),
                          embedding_dims |-> 768]
                 params == IF Truthy(embedding_base_url)
                           THEN DictSet(base, "ollama_base_url", embedding_base_url)
                           ELSE base
             IN  [config |-> DictSet(st.config, "embedder",
                      [provider |-> "ollama", config |-> params]),
                  environ |-> env]
        ELSE st

\* mem0_memory_manager.py 150-154
\* Mutant of mgr_embedding_dims: the manager's copy knows one dimension.
mgr_embedding_dims_OneSize(env) == DefaultDims

mgr_embedding_dims(env) ==
    LET llm_provider == getenv(env, "LLM_PROVIDER")
    IN  IF llm_provider = "openai" \/ llm_provider = "github_copilot"
        THEN 1536
        ELSE IF llm_provider = "ollama" THEN 768 ELSE DefaultDims

\* mem0_memory_manager.py 156-163: always the supabase section;
\* VECTOR_STORE_PROVIDER is not read
mgr_ConfigureVectorStore(st) ==
    LET env == st.environ
        embedding_dims == mgr_embedding_dims(env)
    IN  [config |-> DictSet(st.config, "vector_store",
             [provider |-> "supabase",
              config |-> [connection_string |->
                              getenv_default(env, "DATABASE_URL", ""),
                          collection_name |-> "mem0_memories",
                          embedding_model_dims |-> embedding_dims]]),
         environ |-> env]

\* mem0_memory_manager.py 57-163
mgr_get_mem0_client(env) ==
    mgr_ConfigureVectorStore(
        mgr_ConfigureEmbedder(
            mgr_ConfigureLlm([config |-> EmptyDict, environ |-> env])))

(***************************************************************************)
(* Running a builder.  Memory.from_config is external: it validates the    *)
(* configuration and may raise; the configuration and the environment are  *)
(* what they are either way.                                               *)
(***************************************************************************)
FactoryOutcomes == {"client", "raised"}

NoBuild ==
    [who |-> "none", config |-> EmptyDict, env_before |-> EmptyEnviron,
     outcome |-> "none"]

\* utils.py 18-144
RunUtilsBuilder ==
    \E outcome \in FactoryOutcomes :
        LET r == utils_get_mem0_client(environ)
        IN  /\ environ' = r.environ
            /\ build' = [who |-> "utils", config |-> r.config,
                         env_before |-> environ, outcome |-> outcome]
            /\ UNCHANGED <<store, mop, collections, qop, cli>>

\* mem0_memory_manager.py 57-166
RunManagerBuilder ==
    \E outcome \in FactoryOutcomes :
        LET r == mgr_get_mem0_client(environ)
        IN  /\ environ' = r.environ
            /\ build' = [who |-> "manager", config |-> r.config,
                         env_before |-> environ, outcome |-> outcome]
            /\ UNCHANGED <<store, mop, collections, qop, cli>>

(***************************************************************************)
(* The external memory store (mem0) and MemoryManager.                     *)
(***************************************************************************)
\* mem0_memory_manager.py 170
DEFAULT_USER_ID == "user"

\* The memory records that may exist, each with the one identifier it is
\* associated with.
MemIds == {"m1", "m2", "m3", "m4", "m5"}

Owner ==
    [m \in MemIds |->
        CASE m = "m4" -> [kind |-> "agent_id", value |-> "agent-1"]
          [] m = "m5" -> [kind |-> "run_id", value |-> "run-1"]
          [] OTHER    -> [kind |-> "user_id", value |-> DEFAULT_USER_ID]]

\* the longest list a get_all call returns in the model
MaxList == 3

\* The ids the store holds for a filter.
Matching(st, kind, value) ==
    {m \in st : Owner[m].kind = kind /\ Owner[m].value = value}

\* Sequences over S of length at most n.
SeqUpTo(S, n) == UNION {[1..k -> S] : k \in 0..n}

\* What Memory.get_all may hand back for a filter: a list of records of the
\* matching memories, in whatever order and multiplicity the library
\* produces; a record's 'id' may be missing (None).  Each entry is the
\* value of record.get('id').
Listings(st, kind, value) ==
    SeqUpTo(Matching(st, kind, value) \cup {None}, MaxList)

\* The shapes of a get_all result: {'results': [...]}, a bare list, or
\* anything else.
ResponseFormats == {"dict", "list", "other"}

\* mem0_memory_manager.py 301-304: the list taken from a get_all result
memories_list_of(format, items) ==
    IF format = "dict" THEN items
    ELSE IF format = "list" THEN items ELSE <<>>

\* What the operator may type at the 'DELETE' prompt.
ConfirmInputs == {"DELETE", "delete", " DELETE", ""}

\* Mutant of Cancels: the answer is compared without regard to case.
Cancels_IgnoringCase(confirmation) == confirmation \notin {"DELETE", "delete"}

\* mem0_memory_manager.py 313: the answer that cancels, compared as typed
Cancels(confirmation) == confirmation # "DELETE"

\* mem0_memory_manager.py 319-326: the deletion loop from position i on.
\* acc = [store, log, deleted_count, printed]; fails = the positions whose
\* Memory.delete call raises.
\* Mutant of DeleteLoop: the first delete that raises ends the loop.
RECURSIVE DeleteLoop_StopsAtFailure(_, _, _, _)
DeleteLoop_StopsAtFailure(list, i, fails, acc) ==
    IF i > Len(list) THEN acc
    ELSE LET memory_id == list[i]
         IN  IF ~Truthy(memory_id)
             THEN DeleteLoop_StopsAtFailure(list, i + 1, fails, acc)
             ELSE IF i \in fails
             THEN [acc EXCEPT
                      !.log = Append(@, [call |-> "delete", id |-> memory_id,
                                         pos |-> i, ok |-> FALSE]),
                      !.printed = Append(@, "could_not_delete")]
             ELSE DeleteLoop_StopsAtFailure(list, i + 1, fails,
                      [acc EXCEPT
                          !.store = @ \ {memory_id},
                          !.log = Append(@, [call |-> "delete", id |-> memory_id,
                                             pos |-> i, ok |-> TRUE]),
                          !.deleted_count = @ + 1])

\* Mutant of DeleteLoop: an id already attempted is not attempted again.
RECURSIVE DeleteLoop_Deduplicating(_, _, _, _)
DeleteLoop_Deduplicating(list, i, fails, acc) ==
    IF i > Len(list) THEN acc
    ELSE LET memory_id == list[i]
         IN  IF ~Truthy(memory_id)
                \/ \E k \in DOMAIN acc.log : acc.log[k].id = memory_id
             THEN DeleteLoop_Deduplicating(list, i + 1, fails, acc)
             ELSE IF i \in fails
             THEN DeleteLoop_Deduplicating(list, i + 1, fails,
                      [acc EXCEPT
                          !.log = Append(@, [call |-> "delete", id |-> memory_id,
                                             pos |-> i, ok |-> FALSE]),
                          !.printed = Append(@, "could_not_delete")])
             ELSE DeleteLoop_Deduplicating(list, i + 1, fails,
                      [acc EXCEPT
                          !.store = @ \ {memory_id},
                          !.log = Append(@, [call |-> "delete", id |-> memory_id,
                                             pos |-> i, ok |-> TRUE]),
                          !.deleted_count = @ + 1])

RECURSIVE DeleteLoop(_, _, _, _)
DeleteLoop(list, i, fails, acc) ==
    IF i > Len(list) THEN acc
    ELSE LET memory_id == list[i]
         IN  IF ~Truthy(memory_id)
             \* 322: an entry without an id is passed over
             THEN DeleteLoop(list, i + 1, fails, acc)
             ELSE IF i \in fails
             \* 323 raises, 325-326 report it and the loop goes on
             THEN DeleteLoop(list, i + 1, fails,
                      [acc EXCEPT
                          !.log = Append(@, [call |-> "delete", id |-> memory_id,
                                             pos |-> i, ok |-> FALSE]),
                          !.printed = Append(@, "could_not_delete")])
             \* 323-324
             ELSE DeleteLoop(list, i + 1, fails,
                      [acc EXCEPT
                          !.store = @ \ {memory_id},
                          !.log = Append(@, [call |-> "delete", id |-> memory_id,
                                             pos |-> i, ok |-> TRUE]),
                          !.deleted_count = @ + 1])

\* the identifiers an operation was called with, None for one not given
NoArgs ==
    [user_id |-> None, agent_id |-> None, run_id |-> None, memory_id |-> None]

NoMop ==
    [op |-> "none", args |-> NoArgs, memories_list |-> <<>>,
     confirmation |-> None,
     log |-> <<>>, deleted_count |-> 0, printed |-> <<>>, result |-> "none",
     store_before |-> {}]

GetAllCall(kind, value, ok) ==
    [call |-> "get_all", id |-> value, pos |-> 0, ok |-> ok]

\* mem0_memory_manager.py 293-333, get_all raising (331-333)
SafeDeleteAll_GetAllRaises ==
    /\ mop' = [op |-> "safe_delete_all_memories", args |-> NoArgs,
               memories_list |-> <<>>,
               confirmation |-> None,
               log |-> <<GetAllCall("user_id", DEFAULT_USER_ID, FALSE)>>,
               deleted_count |-> 0,
               printed |-> <<"error_deleting">>, result |-> "False",
               store_before |-> store]
    /\ UNCHANGED store

\* mem0_memory_manager.py 293-333, get_all returning
SafeDeleteAll_Listed ==
    /\ \E format \in ResponseFormats,
       items \in Listings(store, "user_id", DEFAULT_USER_ID),
       confirmation \in ConfirmInputs :
      LET memories_list == memories_list_of(format, items)
          log0 == <<GetAllCall("user_id", DEFAULT_USER_ID, TRUE)>>
          rec == [op |-> "safe_delete_all_memories", args |-> NoArgs,
                  memories_list |-> memories_list,
                  confirmation |-> None, log |-> log0, deleted_count |-> 0,
                  printed |-> <<>>, result |-> "none", store_before |-> store]
      IN  IF memories_list = <<>>
          \* 306-308: nothing to delete, no prompt
          THEN /\ mop' = [rec EXCEPT !.printed = <<"no_memories">>,
                                     !.result = "True"]
               /\ UNCHANGED store
          ELSE IF Cancels(confirmation)
          \* 310-315
          THEN /\ mop' = [rec EXCEPT !.confirmation = confirmation,
                                     !.printed = <<"found", "cancelled">>,
                                     !.result = "False"]
               /\ UNCHANGED store
          \* 317-329
          ELSE \E fails \in SUBSET (1..Len(memories_list)) :
                 LET out == DeleteLoop(memories_list, 1, fails,
                                [store |-> store, log |-> log0,
                                 deleted_count |-> 0, printed |-> <<"found">>])
                 IN  /\ store' = out.store
                     /\ mop' = [rec EXCEPT
                                   !.confirmation = confirmation,
                                   !.log = out.log,
                                   !.deleted_count = out.deleted_count,
                                   !.printed = Append(out.printed, "deleted_n"),
                                   !.result = "True"]

\* MemoryManager.safe_delete_all_memories
safe_delete_all_memories ==
    /\ mop.op = "none"
    /\ SafeDeleteAll_GetAllRaises \/ SafeDeleteAll_Listed
    /\ UNCHANGED <<environ, build, collections, qop, cli>>

\* The identifiers a caller may pass.
UserIdArgs == {None, "", DEFAULT_USER_ID, "alice"}
AgentIdArgs == {None, "agent-1"}
RunIdArgs == {None, "run-1"}
MemoryIdArgs == {None, "", "m1", "m4", "m9"}

Given(S) == {v \in S : Truthy(v)}

\* The ids the store holds for the filters of one get_all call: a filter
\* that is None or empty does not restrict.
Filtered(st, user_id, agent_id, run_id) ==
    {m \in st :
        /\ Truthy(user_id) => Owner[m] = [kind |-> "user_id", value |-> user_id]
        /\ Truthy(agent_id) => Owner[m] = [kind |-> "agent_id", value |-> agent_id]
        /\ Truthy(run_id) => Owner[m] = [kind |-> "run_id", value |-> run_id]}

\* Mutant of DefaultedUserId: the sentinel replaces a missing user id even
\* when an agent or a run is named.
DefaultedUserId_WheneverUserMissing(user_id, agent_id, run_id) ==
    IF ~Truthy(user_id) THEN DEFAULT_USER_ID ELSE user_id

\* mem0_memory_manager.py 212-214: the user id the query is made with
DefaultedUserId(user_id, agent_id, run_id) ==
    IF ~Truthy(user_id) /\ ~Truthy(agent_id) /\ ~Truthy(run_id)
    THEN DEFAULT_USER_ID
    ELSE user_id

\* mem0_memory_manager.py 207-242
\* Mutant of ListMemories: the listing consumes what it lists, removing the
\* listed memories with one delete_all call after get_all returned.
ListMemories_Consuming(user_id, agent_id, run_id) ==
    LET queried == DefaultedUserId(user_id, agent_id, run_id)
        Call(name, ok) == [call |-> name, user_id |-> queried,
                           agent_id |-> agent_id, run_id |-> run_id,
                           id |-> None, pos |-> 0, ok |-> ok]
        rec == [NoMop EXCEPT
                  !.op = "list_memories",
                  !.args = [NoArgs EXCEPT !.user_id = user_id,
                                          !.agent_id = agent_id,
                                          !.run_id = run_id],
                  !.result = "list", !.store_before = store]
        said == IF queried = user_id THEN "fetching" ELSE "fetching_default_user"
        listed == Filtered(store, queried, agent_id, run_id)
    IN  \/ /\ UNCHANGED store
           /\ mop' = [rec EXCEPT !.log = <<Call("get_all", FALSE)>>,
                                 !.printed = <<said, "error_listing">>]
        \/ /\ store' = store \ listed
           /\ \E format \in ResponseFormats,
                 items \in SeqUpTo(listed \cup {None}, MaxList) :
                mop' = [rec EXCEPT
                          !.log = <<Call("get_all", TRUE),
                                    Call("delete_all", TRUE)>>,
                          !.memories_list = memories_list_of(format, items),
                          !.printed = <<said, "found_n">>]

ListMemories(user_id, agent_id, run_id) ==
    LET queried == DefaultedUserId(user_id, agent_id, run_id)
        Call(ok) == [call |-> "get_all", user_id |-> queried,
                     agent_id |-> agent_id, run_id |-> run_id,
                     id |-> None, pos |-> 0, ok |-> ok]
        rec == [NoMop EXCEPT
                  !.op = "list_memories",
                  !.args = [NoArgs EXCEPT !.user_id = user_id,
                                          !.agent_id = agent_id,
                                          !.run_id = run_id],
                  !.result = "list", !.store_before = store]
        said == IF queried = user_id THEN "fetching" ELSE "fetching_default_user"
    IN  /\ UNCHANGED store
        /\ \/ \* 218 raises, 240-242
              mop' = [rec EXCEPT !.log = <<Call(FALSE)>>,
                                 !.printed = <<said, "error_listing">>]
           \/ \* 218-238
              \E format \in ResponseFormats,
                 items \in SeqUpTo(Filtered(store, queried, agent_id, run_id)
                                     \cup {None}, MaxList) :
                mop' = [rec EXCEPT
                          !.log = <<Call(TRUE)>>,
                          !.memories_list = memories_list_of(format, items),
                          !.printed = <<said, "found_n">>]

\* list_memories called with any combination of filters
list_memories ==
    /\ mop.op = "none"
    /\ \E user_id \in UserIdArgs, agent_id \in AgentIdArgs, run_id \in RunIdArgs :
      /\ ListMemories(user_id, agent_id, run_id)
      /\ UNCHANGED <<environ, build, collections, qop, cli>>

\* Mutant of Returned: the method reports success whatever happened.
Returned_AlwaysTrue(ok) == "True"

\* mem0_memory_manager.py 249/253, 261/265, 273/277, 285/289: True from the
\* try block, False from the except block
Returned(ok) == IF ok THEN "True" ELSE "False"

\* mem0_memory_manager.py 244-254
DeleteMemoryById(memory_id) ==
    \E ok \in BOOLEAN :
      /\ mop' = [NoMop EXCEPT
                   !.op = "delete_memory_by_id",
                   !.args = [NoArgs EXCEPT !.memory_id = memory_id],
                   !.log = <<[call |-> "delete", id |-> memory_id,
                              pos |-> 1, ok |-> ok]>>,
                   !.printed = <<"deleting",
                                 IF ok THEN "deleted" ELSE "error_deleting">>,
                   !.result = Returned(ok), !.store_before = store]
      /\ store' = IF ok THEN store \ {memory_id} ELSE store

\* mem0_memory_manager.py 256-290: the three delete_all methods.  A
\* delete_all that raises may have removed some of the matching memories.
DeleteAll(op, kind, value) ==
    \E ok \in BOOLEAN, gone \in SUBSET Matching(store, kind, value) :
      /\ ok => gone = Matching(store, kind, value)
      /\ mop' = [NoMop EXCEPT
                   !.op = op,
                   !.args = [NoArgs EXCEPT ![kind] = value],
                   !.log = <<[call |-> "delete_all", kind |-> kind,
                              id |-> value, pos |-> 1, ok |-> ok]>>,
                   !.printed = <<"deleting",
                                 IF ok THEN "deleted" ELSE "error_deleting">>,
                   !.result = Returned(ok), !.store_before = store]
      /\ store' = store \ gone

DeleteUserMemories(user_id) ==
    DeleteAll("delete_user_memories", "user_id", user_id)

DeleteAgentMemories(agent_id) ==
    DeleteAll("delete_agent_memories", "agent_id", agent_id)

DeleteRunMemories(run_id) ==
    DeleteAll("delete_run_memories", "run_id", run_id)

delete_memory_by_id ==
    /\ mop.op = "none"
    /\ \E memory_id \in Given(MemoryIdArgs) :
      /\ DeleteMemoryById(memory_id)
      /\ UNCHANGED <<environ, build, collections, qop, cli>>

delete_user_memories ==
    /\ mop.op = "none"
    /\ \E user_id \in Given(UserIdArgs) :
      /\ DeleteUserMemories(user_id)
      /\ UNCHANGED <<environ, build, collections, qop, cli>>

delete_agent_memories ==
    /\ mop.op = "none"
    /\ \E agent_id \in Given(AgentIdArgs) :
      /\ DeleteAgentMemories(agent_id)
      /\ UNCHANGED <<environ, build, collections, qop, cli>>

delete_run_memories ==
    /\ mop.op = "none"
    /\ \E run_id \in Given(RunIdArgs) :
      /\ DeleteRunMemories(run_id)
      /\ UNCHANGED <<environ, build, collections, qop, cli>>

\* mem0_memory_manager.py 408-425: the action flags of the command line
Flags ==
    {"interactive", "list_all", "list_memories", "delete_memory",
     "delete_user_memories", "delete_agent_memories", "delete_run_memories",
     "safe_delete_all"}

DeleteFlags ==
    {"delete_memory", "delete_user_memories", "delete_agent_memories",
     "delete_run_memories"}

\* The command lines tried: no flag, one flag, or a delete flag together
\* with any other flag.
CommandLines ==
    {{}} \cup {{f} : f \in Flags} \cup {{f, g} : f \in DeleteFlags, g \in Flags}

\* mem0_memory_manager.py 440-465: the branch of the if/elif chain taken
Dispatch(flags) ==
    IF "interactive" \in flags THEN "interactive"
    ELSE IF "list_all" \in flags \/ "list_memories" \in flags THEN "list_memories"
    ELSE IF "delete_memory" \in flags THEN "delete_memory"
    ELSE IF "delete_user_memories" \in flags THEN "delete_user_memories"
    ELSE IF "delete_agent_memories" \in flags THEN "delete_agent_memories"
    ELSE IF "delete_run_memories" \in flags THEN "delete_run_memories"
    ELSE IF "safe_delete_all" \in flags THEN "safe_delete_all"
    ELSE "usage"

\* mem0_memory_manager.py 445-463: the argument each delete branch requires
RequiredArg ==
    [delete_memory |-> "memory_id", delete_user_memories |-> "user_id",
     delete_agent_memories |-> "agent_id", delete_run_memories |-> "run_id"]

\* Mutant of RequiredMissing: the argument is not looked at.
RequiredMissing_Never(value) == FALSE

\* mem0_memory_manager.py 445, 450, 455, 460: `if not args.<id>`
RequiredMissing(value) == ~Truthy(value)

\* The identifiers a command line may carry.
CommandLineArgs ==
    [user_id : UserIdArgs, agent_id : AgentIdArgs, run_id : RunIdArgs,
     memory_id : MemoryIdArgs]

NoCli ==
    [entry |-> "none", flags |-> {}, branch |-> "none", args |-> NoArgs,
     printed |-> <<>>, exited |-> FALSE, status |-> 0,
     \* interactive mode: the choice and identifier read in the last
     \* iteration, and the store that iteration started from
     choice |-> None, identifier |-> None, store_before |-> {}]

\* mem0_memory_manager.py 389-475 with MemoryManager.__init__ (174-205).
\* An identifier the branch taken does not read is left out of the run.
main ==
    /\ cli.entry = "none"
    /\ mop.op = "none"
    /\ \E flags \in CommandLines, database_url \in DatabaseUrlValues,
          outcome \in FactoryOutcomes, args \in CommandLineArgs :
      LET \* 178-179
          env1 == IF Truthy(database_url)
                  THEN [environ EXCEPT !["DATABASE_URL"] = database_url]
                  ELSE environ
          \* 190
          r == mgr_get_mem0_client(env1)
          branch == Dispatch(flags)
          run == [NoCli EXCEPT !.entry = "main", !.flags = flags,
                               !.branch = branch, !.args = args]
          Ends(status, said) ==
              cli' = [run EXCEPT !.exited = TRUE, !.status = status,
                                 !.printed = said]
          Unread(names) == \A n \in names : args[n] = None
      IN  /\ environ' = r.environ
          /\ build' = [who |-> "manager", config |-> r.config,
                       env_before |-> env1, outcome |-> outcome]
          /\ UNCHANGED <<collections, qop>>
          /\ IF outcome = "raised"
             \* 197-205
             THEN /\ Unread(DOMAIN NoArgs)
                  /\ cli' = [run EXCEPT !.branch = "none", !.exited = TRUE,
                                        !.status = 1,
                                        !.printed = <<"failed_to_initialize">>]
                  /\ UNCHANGED <<mop, store>>
             ELSE IF branch = "interactive"
             \* 440-441: the menu loop is entered
             THEN /\ Unread(DOMAIN NoArgs)
                  /\ cli' = [run EXCEPT !.printed = <<"connected", "menu">>]
                  /\ UNCHANGED <<mop, store>>
             ELSE IF branch = "list_memories"
             \* 442-443
             THEN /\ Unread({"memory_id"})
                  /\ ListMemories(args.user_id, args.agent_id, args.run_id)
                  /\ Ends(0, <<"connected">>)
             ELSE IF branch \in DOMAIN RequiredArg
             THEN IF RequiredMissing(args[RequiredArg[branch]])
                  \* 445-447, 450-452, 455-457, 460-462
                  THEN /\ Ends(1, <<"connected", "id_required">>)
                       /\ UNCHANGED <<mop, store>>
                  \* 448, 453, 458, 463
                  ELSE /\ Ends(0, <<"connected">>)
                       /\ CASE branch = "delete_memory" ->
                                 DeleteMemoryById(args.memory_id)
                            [] branch = "delete_user_memories" ->
                                 DeleteUserMemories(args.user_id)
                            [] branch = "delete_agent_memories" ->
                                 DeleteAgentMemories(args.agent_id)
                            [] branch = "delete_run_memories" ->
                                 DeleteRunMemories(args.run_id)
             ELSE IF branch = "safe_delete_all"
             \* 464-465
             THEN /\ Unread(DOMAIN NoArgs)
                  /\ SafeDeleteAll_GetAllRaises \/ SafeDeleteAll_Listed
                  /\ Ends(0, <<"connected">>)
             \* 466-475
             ELSE /\ Unread(DOMAIN NoArgs)
                  /\ Ends(0, <<"connected", "usage">>)
                  /\ UNCHANGED <<mop, store>>

\* mem0_memory_manager.py 342-350: the entries of the menu, as printed
Menu ==
    <<"1. List all memories", "2. List memories by user ID",
      "3. List memories by agent ID", "4. Delete specific memory by ID",
      "5. Delete all memories for a user", "6. Delete all memories for an agent",
      "7. Delete all memories for a run",
      "8. Safe delete all memories (recommended)", "9. Exit">>

\* input() at end of input raises EOFError
EOF == "<EOF>"

\* What the operator may type at the choice prompt and at an identifier
\* prompt.
ChoiceInputs ==
    {"1", "2", "3", "4", "5", "6", "7", "8", "9", " 9 ", "10", "0", "", "x"}

TypedIds ==
    [user_id |-> {"", " ", DEFAULT_USER_ID, "alice"},
     agent_id |-> {"", "agent-1"},
     run_id |-> {"", "run-1"},
     memory_id |-> {"", "m1", "m4", "m9"}]

\* str.strip() on the inputs above
strip(v) == IF v = " 9 " THEN "9" ELSE IF v = " " THEN "" ELSE v

\* mem0_memory_manager.py 358, 362, 366, 370, 374, 378: the identifier a
\* choice asks for
PromptedId ==
    [c \in {"2", "3", "4", "5", "6", "7"} |->
        CASE c \in {"2", "5"} -> "user_id"
          [] c \in {"3", "6"} -> "agent_id"
          [] c = "4" -> "memory_id"
          [] c = "7" -> "run_id"]

\* Mutant of MenuAction: a tenth entry that runs the safe delete.
MenuAction_TenChoices(choice) ==
    CASE choice = "1" -> "list_memories"
      [] choice = "2" -> "list_memories"
      [] choice = "3" -> "list_memories"
      [] choice = "4" -> "delete_memory_by_id"
      [] choice = "5" -> "delete_user_memories"
      [] choice = "6" -> "delete_agent_memories"
      [] choice = "7" -> "delete_run_memories"
      [] choice = "8" -> "safe_delete_all_memories"
      [] choice = "9" -> "exit"
      [] choice = "10" -> "safe_delete_all_memories"
      [] OTHER -> "invalid"

\* mem0_memory_manager.py 354-386: the branch of the if/elif chain a choice
\* selects
MenuAction(choice) ==
    CASE choice = "1" -> "list_memories"
      [] choice = "2" -> "list_memories"
      [] choice = "3" -> "list_memories"
      [] choice = "4" -> "delete_memory_by_id"
      [] choice = "5" -> "delete_user_memories"
      [] choice = "6" -> "delete_agent_memories"
      [] choice = "7" -> "delete_run_memories"
      [] choice = "8" -> "safe_delete_all_memories"
      [] choice = "9" -> "exit"
      [] OTHER -> "invalid"

\* mem0_memory_manager.py 335-386: one iteration of the loop of
\* interactive_mode, from the choice prompt to the next one.  In the loop,
\* mop is what the method called in the iteration did, NoMop when none was.
interactive_mode ==
    /\ cli.branch = "interactive"
    /\ ~cli.exited
    /\ UNCHANGED <<environ, build, collections, qop>>
    /\ \E typed \in ChoiceInputs \cup {EOF} :
        LET choice == strip(typed)
            action == MenuAction(choice)
            it == [cli EXCEPT !.choice = choice, !.identifier = None,
                              !.store_before = store]
            \* the iteration ends at the next prompt, the menu printed again
            Again(said) == cli' = [it EXCEPT !.printed = Append(said, "menu")]
            Nothing == UNCHANGED store /\ mop' = NoMop
            \* input() raised: nothing catches it, the process ends
            Escapes == /\ cli' = [it EXCEPT !.choice = None, !.exited = TRUE,
                                            !.status = 1,
                                            !.printed = <<"traceback">>]
                       /\ Nothing
        IN  IF typed = EOF
            \* 352
            THEN Escapes
            ELSE IF action = "invalid"
            \* 385-386
            THEN Again(<<"invalid_choice">>) /\ Nothing
            ELSE IF action = "exit"
            \* 382-384
            THEN /\ cli' = [it EXCEPT !.exited = TRUE, !.status = 0,
                                      !.printed = <<"goodbye">>]
                 /\ Nothing
            ELSE IF action = "safe_delete_all_memories"
            \* 380-381
            THEN /\ Again(<<>>)
                 /\ SafeDeleteAll_GetAllRaises \/ SafeDeleteAll_Listed
            ELSE IF choice \notin DOMAIN PromptedId
            \* 354-355
            THEN /\ Again(<<>>)
                 /\ ListMemories(None, None, None)
            \* 356-379: the choices that ask for an identifier
            ELSE \E typed_id \in TypedIds[PromptedId[choice]] \cup {EOF} :
                  LET kind == PromptedId[choice]
                      id == strip(typed_id)
                      Asked == cli' = [it EXCEPT !.identifier = id,
                                                 !.printed = <<"menu">>]
                  IN  IF typed_id = EOF
                      THEN Escapes
                      ELSE IF ~Truthy(id)
                      \* 359, 363, 367, 371, 375, 379: nothing is called
                      THEN Asked /\ Nothing
                      ELSE
                        /\ Asked
                        /\ CASE choice = "2" -> ListMemories(id, None, None)
                             [] choice = "3" -> ListMemories(None, id, None)
                             [] choice = "4" -> DeleteMemoryById(id)
                             [] choice = "5" -> DeleteUserMemories(id)
                             [] choice = "6" -> DeleteAgentMemories(id)
                             [] choice = "7" -> DeleteRunMemories(id)

(***************************************************************************)
(* The external vector database (Qdrant) and scripts/qdrant_manager.py.    *)
(***************************************************************************)
CollectionNames == {"mem0_memories", "custom"}

\* the point ids a collection may hold are 1..MaxPoints
MaxPoints == 3
PointIds == 1..MaxPoints

\* qdrant_manager.py 227: the page size of the one scroll call
ScrollLimit == 10000

Exists(db, name) == name \in DOMAIN db

\* The states of the database: each existing collection has its points and
\* the vector size it was created with.
CollectionStates ==
    {f \in UNION {[names -> [points : SUBSET PointIds, size : {1536}]] :
                     names \in SUBSET CollectionNames} :
        Exists(f, "custom") => f["custom"].points \in {{}, PointIds}}

\* the database without collection `name`
Dropped(db, name) == [n \in (DOMAIN db) \ {name} |-> db[n]]

\* A collection larger than one page of the scroll call, and the largest
\* point id in use.
ManyPoints == 1..(ScrollLimit + 1)
LargestId == ScrollLimit + MaxPoints

\* The least id k in lo..hi such that at least `limit` points of pts have
\* an id of at most k (there is one whenever pts has `limit` points).
RECURSIVE PageEnd(_, _, _, _)
PageEnd(pts, limit, lo, hi) ==
    IF lo >= hi THEN lo
    ELSE LET mid == (lo + hi) \div 2
         IN  IF Cardinality({p \in pts : p <= mid}) >= limit
             THEN PageEnd(pts, limit, lo, mid)
             ELSE PageEnd(pts, limit, mid + 1, hi)

\* client.scroll(name, limit)[0]: the first `limit` points, by id
Scroll(pts, limit) ==
    IF Cardinality(pts) <= limit THEN pts
    ELSE LET last == PageEnd(pts, limit, 1, LargestId)
         IN  {p \in pts : p <= last}

\* What a delete call that raises may have removed of the points S: any
\* part of a few points; of a whole page, nothing or everything.
PartlyRemoved(S) ==
    IF Cardinality(S) <= MaxPoints THEN SUBSET S ELSE {{}, S}

\* int(): the number a string of digits denotes; ValueError on anything else
IsNumber(v) == v \in {"768", "1536"}

int(v) == IF v = "768" THEN 768 ELSE 1536

\* qdrant_manager.py 50-56: the dictionary load_env_config returns

load_env_config_raises(env) ==
    ~IsNumber(getenv_default(env, "EMBEDDING_DIMS", "1536"))

load_env_config(env) ==
    [url |-> getenv(env, "QDRANT_URL"),
     api_key |-> getenv(env, "QDRANT_API_KEY"),
     collection_name |-> getenv_default(env, "QDRANT_COLLECTION_NAME", "mem0_memories"),
     embedding_dims |-> int(getenv_default(env, "EMBEDDING_DIMS", "1536")),
     llm_provider |-> getenv_default(env, "LLM_PROVIDER", "github_copilot")]

\* qdrant_manager.py 60-61: get_qdrant_client raises ValueError
get_qdrant_client_raises(config) ==
    ~Truthy(config.url) \/ ~Truthy(config.api_key)

\* Mutant of get_embedding_dimensions: every provider gets the default size.
get_embedding_dimensions_DefaultOnly(llm_provider) == 1536

\* qdrant_manager.py 68-75
get_embedding_dimensions(llm_provider) ==
    IF llm_provider \in {"openai", "github_copilot"} THEN 1536
    ELSE IF llm_provider = "ollama" THEN 768
    ELSE 1536

\* What a command line may give.
ArgNames == {None} \cup CollectionNames
YesNoInputs == {"y", "Y", "n", "", "yes"}

\* Mutant of Lower: the answer is compared as typed.
Lower_AsTyped(v) == v

\* str.lower() on the answers above
Lower(v) == IF v = "Y" THEN "y" ELSE v

\* The external call that raises in a run, if any: none, or one of the
\* client's calls (a network or server failure).
CreateFailures ==
    {"none", "QdrantClient", "get_collections", "delete_collection",
     "create_collection"}
DeleteFailures == {"none", "QdrantClient", "delete_collection"}
ClearFailures == {"none", "QdrantClient", "scroll", "delete"}

\* The answer typed at a y/N prompt; with --force there is no prompt.
Answers(force) == IF force THEN {None} ELSE YesNoInputs

NoQop ==
    [cmd |-> "none", collection_name |-> None, force |-> FALSE,
     confirm |-> None, outcome |-> "none", printed |-> <<>>, log |-> <<>>,
     before |-> <<>>, enumerated |-> {}, unremovable |-> {}, cleared |-> 0]

QCall(call, name, ok) == [call |-> call, name |-> name, ok |-> ok]

\* A command that ends with an exception leaving the function: nothing
\* catches it, the process ends with a traceback.
Escaped(cmd, name, force) ==
    [NoQop EXCEPT !.cmd = cmd, !.collection_name = name, !.force = force,
                  !.outcome = "raised", !.before = collections]

\* qdrant_manager.py 79-80, 151-152, 170-171, ...: config = load_env_config();
\* client = get_qdrant_client(config), both outside any try
ClientFails(env, fail) ==
    \/ load_env_config_raises(env)
    \/ get_qdrant_client_raises(load_env_config(env))
    \/ fail = "QdrantClient"

\* Mutant of KeepsExisting: an existing collection is always recreated.
KeepsExisting_Never(existing, force) == FALSE

\* Mutant of KeepsExisting: --force is not looked at.
KeepsExisting_EvenForced(existing, force) == existing

\* qdrant_manager.py 90-93: an existing collection is kept, and reported,
\* unless --force is given
KeepsExisting(existing, force) == existing /\ ~force

\* qdrant_manager.py 77-114
create_collection ==
    \E name \in ArgNames, force \in BOOLEAN, fail \in CreateFailures :
      /\ qop.cmd = "none"
      /\ UNCHANGED <<environ, build, store, mop, cli>>
      /\ IF ClientFails(environ, fail)
         THEN /\ qop' = Escaped("create_collection", name, force)
              /\ UNCHANGED collections
         ELSE
           LET config == load_env_config(environ)
               collection_name == Or(name, config.collection_name)
               embedding_dims == get_embedding_dimensions(config.llm_provider)
               rec == [NoQop EXCEPT !.cmd = "create_collection",
                                    !.collection_name = collection_name,
                                    !.force = force, !.outcome = "returned",
                                    !.before = collections]
               existing == Exists(collections, collection_name)
               get == QCall("get_collections", None, fail # "get_collections")
               del == QCall("delete_collection", collection_name,
                            fail # "delete_collection")
               \* the database refuses to create a collection that exists
               keeps == KeepsExisting(existing, force)
               db1 == IF existing /\ ~keeps
                      THEN Dropped(collections, collection_name)
                      ELSE collections
               crt_ok == fail # "create_collection" /\ ~Exists(db1, collection_name)
               crt == QCall("create_collection", collection_name, crt_ok)
               created == (collection_name :> [points |-> {}, size |-> embedding_dims])
                          @@ db1
           IN  IF fail = "get_collections"
               \* 87 raises, 113-114
               THEN /\ qop' = [rec EXCEPT !.log = <<get>>,
                                          !.printed = <<"error_creating">>]
                    /\ UNCHANGED collections
               ELSE IF keeps
               \* 90-93
               THEN /\ qop' = [rec EXCEPT !.log = <<get>>,
                                          !.printed = <<"already_exists">>]
                    /\ UNCHANGED collections
               ELSE IF existing /\ fail = "delete_collection"
               \* 96 raises, 113-114
               THEN /\ qop' = [rec EXCEPT !.log = <<get, del>>,
                                          !.printed = <<"deleting_existing",
                                                        "error_creating">>]
                    /\ UNCHANGED collections
               \* 95-111
               ELSE LET pre == IF existing THEN <<get, del>> ELSE <<get>>
                        said == IF existing THEN <<"deleting_existing", "creating">>
                                ELSE <<"creating">>
                    IN  IF crt_ok
                        THEN /\ qop' = [rec EXCEPT
                                          !.log = Append(pre, crt),
                                          !.printed = Append(said, "created")]
                             /\ collections' = created
                        ELSE /\ qop' = [rec EXCEPT
                                          !.log = Append(pre, crt),
                                          !.printed = Append(said, "error_creating")]
                             /\ collections' = db1

\* qdrant_manager.py 145-165
delete_collection ==
    \E name \in ArgNames, force \in BOOLEAN, fail \in DeleteFailures :
     \E confirm \in Answers(force) :
      /\ qop.cmd = "none"
      /\ UNCHANGED <<environ, build, store, mop, cli>>
      /\ IF ~Truthy(name)
         \* 147-149
         THEN /\ qop' = [NoQop EXCEPT !.cmd = "delete_collection",
                                      !.force = force, !.outcome = "returned",
                                      !.printed = <<"name_required">>,
                                      !.before = collections]
              /\ UNCHANGED collections
         ELSE IF ClientFails(environ, fail)
         THEN /\ qop' = Escaped("delete_collection", name, force)
              /\ UNCHANGED collections
         ELSE
           LET rec == [NoQop EXCEPT !.cmd = "delete_collection",
                                    !.collection_name = name,
                                    !.force = force, !.outcome = "returned",
                                    !.confirm = confirm,
                                    !.before = collections]
               del == QCall("delete_collection", name, fail # "delete_collection")
           IN  IF ~force /\ Lower(confirm) # "y"
               \* 154-158
               THEN /\ qop' = [rec EXCEPT !.printed = <<"cancelled">>]
                    /\ UNCHANGED collections
               ELSE IF fail = "delete_collection"
               \* 161 raises, 164-165
               THEN /\ qop' = [rec EXCEPT !.log = <<del>>,
                                          !.printed = <<"error_deleting">>]
                    /\ UNCHANGED collections
               \* 161-162
               ELSE /\ qop' = [rec EXCEPT !.log = <<del>>,
                                          !.printed = <<"deleted">>]
                    /\ collections' = Dropped(collections, name)

\* qdrant_manager.py 213-236.  unremovable = the points of the page whose
\* deletion the database cannot carry out: a delete call that names one of
\* them raises, having removed some of the other points it names, or none.
clear_collection ==
    \E name \in ArgNames, force \in BOOLEAN, fail \in ClearFailures :
     \E confirm \in Answers(force) :
      /\ qop.cmd = "none"
      /\ UNCHANGED <<environ, build, store, mop, cli>>
      /\ IF (~Truthy(name) /\ load_env_config_raises(environ))
            \/ ClientFails(environ, fail)
         \* 215-217
         THEN /\ qop' = Escaped("clear_collection", name, force)
              /\ UNCHANGED collections
         ELSE
           LET collection_name == Or(name, load_env_config(environ).collection_name)
               rec == [NoQop EXCEPT !.cmd = "clear_collection",
                                    !.collection_name = collection_name,
                                    !.force = force, !.outcome = "returned",
                                    !.confirm = confirm,
                                    !.before = collections]
               scroll_ok == fail # "scroll" /\ Exists(collections, collection_name)
               scr == QCall("scroll", collection_name, scroll_ok)
           IN  IF ~force /\ Lower(confirm) # "y"
               \* 219-223
               THEN /\ qop' = [rec EXCEPT !.printed = <<"cancelled">>]
                    /\ UNCHANGED collections
               ELSE IF ~scroll_ok
               \* 227 raises, 235-236
               THEN /\ qop' = [rec EXCEPT !.log = <<scr>>,
                                          !.printed = <<"error_clearing">>]
                    /\ UNCHANGED collections
               ELSE
                 LET points == Scroll(collections[collection_name].points, ScrollLimit)
                     point_ids == points
                     Without(gone) ==
                         [collections EXCEPT ![collection_name].points = @ \ gone]
                 IN  IF points = {}
                     \* 232-233
                     THEN /\ qop' = [rec EXCEPT !.log = <<scr>>,
                                                !.printed = <<"already_empty">>]
                          /\ UNCHANGED collections
                     ELSE
                      \E unremovable \in SUBSET (PointIds \cap point_ids) :
                       LET stuck == unremovable
                           del_ok == fail # "delete" /\ stuck = {}
                           del == QCall("delete", collection_name, del_ok)
                       IN  IF del_ok
                           \* 229-231: one delete call for the whole page
                           THEN /\ qop' = [rec EXCEPT
                                             !.log = <<scr, del>>,
                                             !.enumerated = point_ids,
                                             !.printed = <<"cleared_n">>,
                                             !.cleared = Cardinality(point_ids)]
                                /\ collections' = Without(point_ids)
                           \* 230 raises, 235-236: no count is printed
                           ELSE \E gone \in PartlyRemoved(point_ids \ stuck) :
                                /\ qop' = [rec EXCEPT
                                             !.log = <<scr, del>>,
                                             !.enumerated = point_ids,
                                             !.unremovable = stuck,
                                             !.printed = <<"error_clearing">>]
                                /\ collections' = Without(gone)

\* The read-only commands of qdrant_manager.py.
InfoFailures == {"none", "QdrantClient", "get_collection"}
ListFailures == {"none", "QdrantClient", "get_collections", "get_collection"}
CountFailures == {"none", "QdrantClient", "count"}
TestFailures == {"none", "QdrantClient", "get_collections", "get_cluster_info"}

\* The error a call on collection `name` raises, if any: the server answers
\* "not found" for a collection that does not exist.
ErrorOf(db, name, failed) ==
    IF failed THEN "network"
    ELSE IF ~Exists(db, name) THEN "not_found"
    ELSE None

\* Mutant of Catches: the handler lets the server's "not found" answer pass.
Catches_OnlyNetworkErrors(error) == error = "network"

\* qdrant_manager.py 113, 142, 164, 197, 210, 235: `except Exception` catches
\* every error raised inside the try
Catches(error) == TRUE

\* qdrant_manager.py 167-198
collection_info ==
    \E name \in ArgNames, fail \in InfoFailures :
      /\ qop.cmd = "none"
      /\ UNCHANGED <<environ, build, store, mop, cli, collections>>
      /\ IF ClientFails(environ, fail)
         \* 169-171
         THEN qop' = Escaped("collection_info", name, FALSE)
         ELSE
           LET collection_name == Or(name, load_env_config(environ).collection_name)
               rec == [NoQop EXCEPT !.cmd = "collection_info",
                                    !.collection_name = collection_name,
                                    !.outcome = "returned",
                                    !.before = collections]
               error == ErrorOf(collections, collection_name,
                                fail = "get_collection")
               get == QCall("get_collection", collection_name, error = None)
           IN  IF error = None
               \* 174-195
               THEN qop' = [rec EXCEPT !.log = <<get>>,
                                       !.printed = <<"collection_information">>]
               ELSE IF Catches(error)
               \* 174 raises, 197-198
               THEN qop' = [rec EXCEPT !.log = <<get>>,
                                       !.printed = <<"error_getting_info">>]
               ELSE qop' = [rec EXCEPT !.log = <<get>>, !.outcome = "raised"]

\* qdrant_manager.py 200-211
count_vectors ==
    \E name \in ArgNames, fail \in CountFailures :
      /\ qop.cmd = "none"
      /\ UNCHANGED <<environ, build, store, mop, cli, collections>>
      /\ IF ClientFails(environ, fail)
         \* 202-204
         THEN qop' = Escaped("count_vectors", name, FALSE)
         ELSE
           LET collection_name == Or(name, load_env_config(environ).collection_name)
               rec == [NoQop EXCEPT !.cmd = "count_vectors",
                                    !.collection_name = collection_name,
                                    !.outcome = "returned",
                                    !.before = collections]
               error == ErrorOf(collections, collection_name, fail = "count")
               cnt == QCall("count", collection_name, error = None)
           IN  IF error = None
               \* 207-208
               THEN qop' = [rec EXCEPT
                              !.log = <<cnt>>, !.printed = <<"contains_n">>,
                              !.cleared =
                                  Cardinality(collections[collection_name].points)]
               \* 207 raises, 210-211
               ELSE qop' = [rec EXCEPT !.log = <<cnt>>,
                                       !.printed = <<"error_counting">>]

\* The orders in which the server may list the collections in S.
Orderings(S) ==
    {s \in [1..Cardinality(S) -> S] : \A i, j \in DOMAIN s : s[i] = s[j] => i = j}

\* qdrant_manager.py 116-143
list_collections ==
    \E fail \in ListFailures, names \in Orderings(DOMAIN collections) :
      /\ qop.cmd = "none"
      /\ UNCHANGED <<environ, build, store, mop, cli, collections>>
      /\ IF ClientFails(environ, fail)
         \* 118-119
         THEN qop' = Escaped("list_collections", None, FALSE)
         ELSE
           LET rec == [NoQop EXCEPT !.cmd = "list_collections",
                                    !.outcome = "returned",
                                    !.before = collections]
               lst == QCall("get_collections", None, fail # "get_collections")
               Infos(n) == [i \in 1..n |-> QCall("get_collection", names[i], TRUE)]
           IN  IF fail = "get_collections"
               \* 122 raises, 142-143
               THEN qop' = [rec EXCEPT !.log = <<lst>>,
                                       !.printed = <<"error_listing">>]
               ELSE IF names = <<>>
               \* 124-126
               THEN qop' = [rec EXCEPT !.log = <<lst>>,
                                       !.printed = <<"no_collections">>]
               ELSE IF fail = "get_collection"
               \* 131 raises on the first collection, 142-143
               THEN qop' = [rec EXCEPT
                              !.log = <<lst, QCall("get_collection", names[1], FALSE)>>,
                              !.printed = <<"available_collections",
                                            "error_listing">>]
               \* 128-140
               ELSE qop' = [rec EXCEPT
                              !.log = <<lst>> \o Infos(Len(names)),
                              !.printed = <<"available_collections">>]

\* qdrant_manager.py 312-337
test_connection ==
    \E fail \in TestFailures :
      /\ qop.cmd = "none"
      /\ UNCHANGED <<environ, build, store, mop, cli, collections>>
      /\ IF load_env_config_raises(environ)
         \* 314
         THEN qop' = Escaped("test_connection", None, FALSE)
         ELSE
           LET config == load_env_config(environ)
               rec == [NoQop EXCEPT !.cmd = "test_connection",
                                    !.outcome = "returned",
                                    !.before = collections]
               lst == QCall("get_collections", None, fail # "get_collections")
               inf == QCall("get_cluster_info", None, fail # "get_cluster_info")
           IN  IF get_qdrant_client_raises(config) \/ fail = "QdrantClient"
               \* 322 raises, 336-337
               THEN qop' = [rec EXCEPT !.printed = <<"testing",
                                                     "connection_failed">>]
               ELSE IF fail = "get_collections"
               \* 325 raises, 336-337
               THEN qop' = [rec EXCEPT !.log = <<lst>>,
                                       !.printed = <<"testing",
                                                     "connection_failed">>]
               ELSE IF fail = "get_cluster_info"
               \* 331 raises, 333-334
               THEN qop' = [rec EXCEPT
                              !.log = <<lst, inf>>,
                              !.printed = <<"testing", "connection_successful",
                                            "cluster_info_not_available">>]
               \* 325-332
               ELSE qop' = [rec EXCEPT
                              !.log = <<lst, inf>>,
                              !.printed = <<"testing", "connection_successful",
                                            "cluster_status">>]

\* qdrant_manager.py 238-310.  importable: whether `from utils import
\* get_mem0_client` finds the module.
OutputFormats == {"json", "list"}

get_all_memories ==
    \E importable \in BOOLEAN, outcome \in FactoryOutcomes,
       get_all_ok \in BOOLEAN, format \in ResponseFormats,
       output \in OutputFormats :
     \E items \in Listings(store, "user_id", DEFAULT_USER_ID) :
      /\ qop.cmd = "none"
      /\ UNCHANGED <<store, mop, cli, collections>>
      /\ LET rec == [NoQop EXCEPT !.cmd = "get_all_memories",
                                  !.outcome = "returned",
                                  !.before = collections]
             r == utils_get_mem0_client(environ)
             get == QCall("get_all", DEFAULT_USER_ID, get_all_ok)
         IN  IF load_env_config_raises(environ)
             \* 244
             THEN /\ qop' = Escaped("get_all_memories", None, FALSE)
                  /\ UNCHANGED <<environ, build>>
             ELSE IF ~importable
             \* 247-251
             THEN /\ qop' = [rec EXCEPT !.printed = <<"could_not_import">>]
                  /\ UNCHANGED <<environ, build>>
             ELSE
               /\ environ' = r.environ
               /\ build' = [who |-> "utils", config |-> r.config,
                            env_before |-> environ, outcome |-> outcome]
               /\ IF outcome = "raised"
                  \* 262 raises, 309-310
                  THEN qop' = [rec EXCEPT !.printed = <<"retrieving",
                                                        "error_retrieving">>]
                  ELSE IF ~get_all_ok
                  \* 265 raises, 309-310
                  THEN qop' = [rec EXCEPT !.log = <<get>>,
                                          !.printed = <<"retrieving",
                                                        "error_retrieving">>]
                  \* 265-307
                  ELSE qop' = [rec EXCEPT
                                 !.log = <<get>>,
                                 !.cleared = Len(memories_list_of(format, items)),
                                 !.printed = <<"retrieving", "retrieved_n",
                                               IF output = "json"
                                               THEN "memories_json"
                                               ELSE "memories_list">>]

(***************************************************************************)
(* Specifications.                                                         *)
(***************************************************************************)
\* The builders, run in every environment tried.
InitBuilder ==
    /\ \E p \in ProviderValues, k \in ApiKeyValues, m \in ModelValues,
          e \in EmbeddingModelValues, b \in BaseUrlValues, s \in SelectorValues,
          ok \in OpenAiKeyValues, ork \in OpenRouterKeyValues,
          d \in DatabaseUrlValues :
            environ = [EmptyEnviron EXCEPT
                          !["LLM_PROVIDER"] = p, !["LLM_API_KEY"] = k,
                          !["LLM_CHOICE"] = m, !["EMBEDDING_MODEL_CHOICE"] = e,
                          !["LLM_BASE_URL"] = b, !["VECTOR_STORE_PROVIDER"] = s,
                          !["OPENAI_API_KEY"] = ok, !["OPENROUTER_API_KEY"] = ork,
                          \* the deployment's settings are given together
                          !["DATABASE_URL"] = d,
                          !["QDRANT_URL"] =
                              IF d = None THEN None ELSE "https://qdrant.example",
                          !["QDRANT_API_KEY"] = IF d = None THEN None ELSE "qd-key",
                          !["QDRANT_COLLECTION_NAME"] =
                              IF d = None THEN None ELSE "custom"]
    /\ build = NoBuild
    /\ store = {}
    /\ mop = NoMop
    /\ collections = <<>>
    /\ qop = NoQop
    /\ cli = NoCli

NextBuilder == RunUtilsBuilder \/ RunManagerBuilder

SpecBuilder == InitBuilder /\ [][NextBuilder]_vars

\* The memory manager, on every content of the store.
InitMemory ==
    /\ environ = EmptyEnviron
    /\ build = NoBuild
    /\ store \in SUBSET MemIds
    /\ mop = NoMop
    /\ collections = <<>>
    /\ qop = NoQop
    /\ cli = NoCli

NextMemory ==
    \/ list_memories
    \/ delete_memory_by_id
    \/ delete_user_memories
    \/ delete_agent_memories
    \/ delete_run_memories
    \/ safe_delete_all_memories

SpecMemory == InitMemory /\ [][NextMemory]_vars

\* The command line of the memory manager, on an empty, a partly filled
\* and a full store,
\* with the database named in the environment or not.
InitCli ==
    /\ environ \in {EmptyEnviron,
                    [EmptyEnviron EXCEPT !["DATABASE_URL"] = "postgresql://db",
                                         !["LLM_PROVIDER"] = "openai",
                                         !["LLM_API_KEY"] = "sk-new"]}
    /\ build = NoBuild
    /\ store \in {{}, {"m1", "m4"}, MemIds}
    /\ mop = NoMop
    /\ collections = <<>>
    /\ qop = NoQop
    /\ cli = NoCli

NextCli == main

SpecCli == InitCli /\ [][NextCli]_vars

\* Interactive mode as main() enters it (--interactive, the client built),
\* at the first choice prompt.
InitInteractive ==
    /\ environ = EmptyEnviron
    /\ build = [who |-> "manager",
                config |-> mgr_get_mem0_client(EmptyEnviron).config,
                env_before |-> EmptyEnviron, outcome |-> "client"]
    /\ store \in {{"m1", "m4", "m5"}}
    /\ mop = NoMop
    /\ collections = <<>>
    /\ qop = NoQop
    /\ cli = [NoCli EXCEPT !.entry = "main", !.flags = {"interactive"},
                           !.branch = "interactive",
                           !.printed = <<"connected", "menu">>]

NextInteractive == interactive_mode

SpecInteractive == InitInteractive /\ [][NextInteractive]_vars

\* The environments the vector-database manager is run in: every setting
\* of collection name, provider and dimension override with the credentials
\* present, and the two environments that lack a credential.
QdrantEnvirons ==
    {[EmptyEnviron EXCEPT
         !["QDRANT_URL"] = "https://qdrant.example", !["QDRANT_API_KEY"] = "qd-key",
         !["QDRANT_COLLECTION_NAME"] = c, !["LLM_PROVIDER"] = p,
         !["EMBEDDING_DIMS"] = dm] :
       c \in CollectionNameValues, p \in {None, "ollama"},
       dm \in EmbeddingDimsValues}
    \cup {[EmptyEnviron EXCEPT !["QDRANT_URL"] = q, !["QDRANT_API_KEY"] = k] :
             q \in QdrantUrlValues, k \in QdrantKeyValues}

\* The vector-database manager, on every content of the database.
InitQdrant ==
    /\ \/ /\ environ \in QdrantEnvirons
          /\ collections \in CollectionStates
       \/ \* the default collection, grown beyond one page
          /\ environ = [EmptyEnviron EXCEPT
                           !["QDRANT_URL"] = "https://qdrant.example",
                           !["QDRANT_API_KEY"] = "qd-key"]
          /\ collections =
                ("mem0_memories" :> [points |-> ManyPoints, size |-> 1536])
    /\ build = NoBuild
    /\ store = {}
    /\ mop = NoMop
    /\ qop = NoQop
    /\ cli = NoCli

NextQdrant ==
    \/ create_collection
    \/ list_collections
    \/ delete_collection
    \/ collection_info
    \/ count_vectors
    \/ clear_collection
    \/ get_all_memories
    \/ test_connection

SpecQdrant == InitQdrant /\ [][NextQdrant]_vars

\* Both command-line tools: one run of one command of either tool, on every
\* content of the memory store or of the vector database.
InitTools == InitMemory \/ InitQdrant

NextTools ==
    \/ qop.cmd = "none" /\ NextMemory
    \/ mop.op = "none" /\ NextQdrant

SpecTools == InitTools /\ [][NextTools]_vars

\* One deployment: the server builds its mem0 configuration and the
\* administrator's script creates the collection, both from the same
\* environment, in either order.
InitDeployment ==
    /\ \E p \in ProviderValues, dm \in EmbeddingDimsValues,
          s \in {None, "qdrant"}, c \in CollectionNameValues :
            environ = [EmptyEnviron EXCEPT
                          !["LLM_PROVIDER"] = p, !["EMBEDDING_DIMS"] = dm,
                          !["VECTOR_STORE_PROVIDER"] = s,
                          !["QDRANT_COLLECTION_NAME"] = c,
                          !["QDRANT_URL"] = "https://qdrant.example",
                          !["QDRANT_API_KEY"] = "qd-key"]
    /\ build = NoBuild
    /\ store = {}
    /\ mop = NoMop
    /\ collections \in {<<>>, ("mem0_memories" :> [points |-> {1}, size |-> 1536])}
    /\ qop = NoQop
    /\ cli = NoCli

NextDeployment ==
    \/ build.who = "none" /\ RunUtilsBuilder
    \/ create_collection

SpecDeployment == InitDeployment /\ [][NextDeployment]_vars

(***************************************************************************)
(* Properties of MemoryManager.safe_delete_all_memories (SpecMemory).      *)
(***************************************************************************)
\* The Memory.delete calls of the last operation, in the order made.
IsDelete(c) == c.call = "delete"
DeleteCalls == SelectSeq(mop.log, IsDelete)

RanSafeDeleteAll == mop.op = "safe_delete_all_memories"

\* The operator was asked for the confirmation and typed something else
\* than DELETE.
AnsweredOtherThanDELETE ==
    RanSafeDeleteAll /\ mop.confirmation \notin {None, "DELETE"}

\* C1: safe_delete_all_memories calls Memory.delete only when the answer to
\* the confirmation prompt is exactly 'DELETE'; after any other answer
\* ('delete', ' DELETE', the empty answer) no delete was called, the store
\* is as it was, "Operation cancelled" was printed and False is returned.
C1_DeleteOnlyOnExactDELETE ==
    /\ (RanSafeDeleteAll /\ DeleteCalls # <<>>) => mop.confirmation = "DELETE"
    /\ AnsweredOtherThanDELETE =>
          /\ DeleteCalls = <<>>
          /\ store = mop.store_before
          /\ mop.printed[Len(mop.printed)] = "cancelled"
          /\ mop.result = "False"

\* A run that found memories, was answered 'delete' in lower case and left
\* the store as it was.
C1_Witness ==
    /\ RanSafeDeleteAll
    /\ mop.confirmation = "delete"
    /\ Len(mop.memories_list) = MaxList
    /\ store = mop.store_before
    /\ mop.result = "False"

\* Every entry of the enumeration is a memory record, which has an id.
AllHaveIds == \A i \in DOMAIN mop.memories_list : Truthy(mop.memories_list[i])

\* The positions whose delete raised.
FailedDeletes == {i \in DOMAIN DeleteCalls : ~DeleteCalls[i].ok}

\* C2: after confirmation, when the enumeration holds N memory records and
\* the delete of exactly one of them raises, a delete was attempted for
\* each of the N records, those after the failing one included, and the
\* count reported is N - 1.
C2_BatchSurvivesOneFailure ==
    (/\ RanSafeDeleteAll
     /\ mop.confirmation = "DELETE"
     /\ AllHaveIds
     /\ Cardinality(FailedDeletes) = 1)
    => /\ Len(DeleteCalls) = Len(mop.memories_list)
       /\ \A i \in DOMAIN DeleteCalls :
             /\ DeleteCalls[i].pos = i
             /\ DeleteCalls[i].id = mop.memories_list[i]
       /\ mop.deleted_count = Len(mop.memories_list) - 1
       /\ mop.printed[Len(mop.printed)] = "deleted_n"
       /\ mop.result = "True"

\* Three records, the delete of the first raises, the other two are
\* attempted and deleted.
C2_Witness ==
    /\ RanSafeDeleteAll
    /\ mop.confirmation = "DELETE"
    /\ AllHaveIds
    /\ Len(mop.memories_list) = MaxList
    /\ Len(DeleteCalls) = MaxList
    /\ FailedDeletes = {1}
    /\ mop.deleted_count = MaxList - 1

(***************************************************************************)
(* Properties of the collection commands (SpecQdrant).                     *)
(***************************************************************************)
\* The calls of the last command that change the database.
IsMutating(c) ==
    c.call \in {"delete_collection", "create_collection", "delete"}
MutatingCalls == SelectSeq(qop.log, IsMutating)

CallNames(calls) == [i \in DOMAIN calls |-> calls[i].call]
AllOk(calls) == \A i \in DOMAIN calls : calls[i].ok

\* clear-collection enumerated N points of which exactly one cannot be
\* deleted.
ClearedWithOneFailingPoint ==
    /\ qop.cmd = "clear_collection"
    /\ qop.enumerated # {}
    /\ Cardinality(qop.unremovable) = 1

\* C3: when clear-collection enumerates N points and the deletion of one
\* of them fails, the other N - 1 points are deleted and the count of
\* cleared vectors reported is N - 1.
C3_ClearSurvivesOneFailure ==
    ClearedWithOneFailingPoint =>
        /\ collections[qop.collection_name].points
             = qop.before[qop.collection_name].points
                 \ (qop.enumerated \ qop.unremovable)
        /\ qop.printed = <<"cleared_n">>
        /\ qop.cleared = Cardinality(qop.enumerated) - 1

\* create-collection ran without --force for a name that existed.
CreatedOverExistingUnforced ==
    /\ qop.cmd = "create_collection"
    /\ ~qop.force
    /\ Truthy(qop.collection_name)
    /\ Exists(qop.before, qop.collection_name)

\* The existence check of create-collection was made and answered.
ExistenceChecked ==
    /\ qop.log # <<>>
    /\ qop.log[1].call = "get_collections"
    /\ qop.log[1].ok

\* C4: create-collection without --force, for a name that already exists,
\* calls neither delete_collection nor create_collection and leaves the
\* database as it was; once its existence check has answered, what it
\* prints is the already-exists message.
C4_UnforcedCreateKeepsExisting ==
    CreatedOverExistingUnforced =>
        /\ MutatingCalls = <<>>
        /\ collections = qop.before
        /\ ExistenceChecked => qop.printed = <<"already_exists">>

\* An existing collection with points, create-collection without --force:
\* reported as existing, its points still there.
C4_Witness ==
    /\ CreatedOverExistingUnforced
    /\ ExistenceChecked
    /\ qop.printed = <<"already_exists">>
    /\ collections[qop.collection_name].points = PointIds

\* create-collection got past its existence check.
CreateChecked ==
    /\ qop.cmd = "create_collection"
    /\ qop.outcome = "returned"
    /\ ExistenceChecked

\* C5: create-collection with --force on an existing collection calls
\* delete_collection and then create_collection, in that order and with
\* nothing else between; when no collection of the name exists it calls
\* create_collection and no delete.  In both cases, when no call fails, the
\* collection exists afterwards (newly created, so without points).
C5_ForcedCreateDeletesThenCreates ==
    CreateChecked =>
        LET name == qop.collection_name
            forced == qop.force /\ Exists(qop.before, name)
            absent == ~Exists(qop.before, name)
        IN  /\ forced =>
                  /\ CallNames(MutatingCalls)
                        \in {<<"delete_collection">>,
                             <<"delete_collection", "create_collection">>}
                  /\ AllOk(qop.log) =>
                        CallNames(MutatingCalls)
                          = <<"delete_collection", "create_collection">>
            /\ absent => CallNames(MutatingCalls) = <<"create_collection">>
            /\ (forced \/ absent) =>
                  /\ \A i \in DOMAIN MutatingCalls : MutatingCalls[i].name = name
                  /\ AllOk(qop.log) =>
                        /\ Exists(collections, name)
                        /\ collections[name].points = {}
                        /\ qop.printed[Len(qop.printed)] = "created"

\* --force on a collection that held points: deleted, created again, empty.
C5_Witness ==
    /\ CreateChecked
    /\ qop.force
    /\ Exists(qop.before, qop.collection_name)
    /\ qop.before[qop.collection_name].points = PointIds
    /\ CallNames(MutatingCalls) = <<"delete_collection", "create_collection">>
    /\ AllOk(qop.log)
    /\ collections[qop.collection_name].points = {}

(***************************************************************************)
(* Properties of the configuration builders (SpecBuilder).                 *)
(***************************************************************************)
Built == build.who # "none"

\* The environment the last run of a builder started from.
Before(v) == build.env_before[v]
Provider == Before("LLM_PROVIDER")
Cfg == build.config
HasSection(name) == name \in DOMAIN Cfg

QdrantShape(vs) ==
    /\ vs.provider = "qdrant"
    /\ DOMAIN vs.config
         = {"collection_name", "embedding_model_dims", "url", "api_key"}

SupabaseShape(vs) ==
    /\ vs.provider = "supabase"
    /\ DOMAIN vs.config
         = {"connection_string", "collection_name", "embedding_model_dims"}

\* The section is the qdrant shape exactly when the selector is 'qdrant',
\* and the supabase shape otherwise.
FollowsSelector ==
    /\ HasSection("vector_store")
    /\ IF Before("VECTOR_STORE_PROVIDER") = "qdrant"
       THEN QdrantShape(Cfg.vector_store)
       ELSE SupabaseShape(Cfg.vector_store)

\* C6 as stated: the vector-store section of a builder's configuration is
\* the qdrant shape exactly when the backend selector equals 'qdrant', and
\* the supabase shape for every other value and when it is absent.
C6_Original == Built => FollowsSelector

\* C6 as amended: that holds of the builder of src/utils.py; the builder of
\* scripts/mem0_memory_manager.py does not read the selector and always
\* produces the supabase shape.
C6_SelectorHonouredByUtilsOnly ==
    /\ build.who = "utils" => FollowsSelector
    /\ build.who = "manager" =>
          /\ HasSection("vector_store")
          /\ SupabaseShape(Cfg.vector_store)

\* The utils builder, selector 'qdrant': the qdrant section.
C6_Witness ==
    /\ build.who = "utils"
    /\ Before("VECTOR_STORE_PROVIDER") = "qdrant"
    /\ QdrantShape(Cfg.vector_store)
    /\ Cfg.vector_store.config.url = "https://qdrant.example"

\* The provider identifier the claim gives for each supported name.
ClaimedLlmProvider(p) ==
    CASE p = "openai" -> "openai"
      [] p = "openrouter" -> "openai"
      [] p = "github_copilot" -> "litellm"
      [] p = "ollama" -> "ollama"

\* The llm section has the claimed provider identifier, temperature 0.2
\* and max_tokens 2000.
LlmSectionBasics ==
    /\ HasSection("llm")
    /\ Cfg.llm.provider = ClaimedLlmProvider(Provider)
    /\ {"model", "temperature", "max_tokens"} \subseteq DOMAIN Cfg.llm.config
    /\ Cfg.llm.config.temperature = <<2, 10>>
    /\ Cfg.llm.config.max_tokens = 2000

\* C7 as stated: for every supported provider name the llm section has the
\* provider identifier openai, openai, litellm, ollama respectively, its
\* parameters are model, temperature 0.2 and max_tokens 2000, and model is
\* the chosen model name when one is given and a fallback default name
\* when none is given.
C7_Original ==
    (Built /\ Provider \in SupportedProviders) =>
        /\ LlmSectionBasics
        /\ IF Truthy(Before("LLM_CHOICE"))
           THEN Cfg.llm.config.model = Before("LLM_CHOICE")
           ELSE Truthy(Cfg.llm.config.model)

\* C7 as amended: the provider identifiers, temperature and max_tokens are
\* as stated; the parameters are model, temperature and max_tokens, and for
\* ollama also ollama_base_url exactly when LLM_BASE_URL is given; model is
\* the chosen name when one is given; when none is given it is the fallback
\* 'github_copilot/gpt-4o' for github_copilot only, and for openai,
\* openrouter and ollama it is what LLM_CHOICE held (None when unset).
C7_FallbackForCopilotOnly ==
    (Built /\ Provider \in SupportedProviders) =>
        /\ LlmSectionBasics
        /\ DOMAIN Cfg.llm.config
             = {"model", "temperature", "max_tokens"}
                 \cup (IF Provider = "ollama" /\ Truthy(Before("LLM_BASE_URL"))
                       THEN {"ollama_base_url"} ELSE {})
        /\ Cfg.llm.config.model
             = IF Provider = "github_copilot" /\ ~Truthy(Before("LLM_CHOICE"))
               THEN "github_copilot/gpt-4o"
               ELSE Before("LLM_CHOICE")

\* github_copilot with no model chosen: the fallback name.
C7_Witness ==
    /\ Built
    /\ Provider = "github_copilot"
    /\ Before("LLM_CHOICE") = None
    /\ Cfg.llm.provider = "litellm"
    /\ Cfg.llm.config.model = "github_copilot/gpt-4o"

\* The fallback embedding model of each provider that has an embedder.
EmbedderFallback(p) ==
    CASE p = "openai" -> "text-embedding-3-small"
      [] p = "github_copilot" -> "github_copilot/text-embedding-3-small"
      [] p = "ollama" -> "nomic-embed-text"

\* The embedder section: 768 dimensions for ollama and 1536 otherwise, the
\* chosen embedding model or, when none is chosen, a fallback default.
EmbedderAsClaimed ==
    /\ HasSection("embedder")
    /\ Cfg.embedder.config.embedding_dims
         = (IF Provider = "ollama" THEN 768 ELSE 1536)
    /\ IF Truthy(Before("EMBEDDING_MODEL_CHOICE"))
       THEN Cfg.embedder.config.model = Before("EMBEDDING_MODEL_CHOICE")
       ELSE Truthy(Cfg.embedder.config.model)

\* C8 as stated: for every supported provider name the configuration has an
\* embedding section of 768 dimensions for ollama and 1536 for the others,
\* whose model is the chosen embedding model or a fallback default.
C8_Original ==
    (Built /\ Provider \in SupportedProviders) => EmbedderAsClaimed

\* C8 as amended: that holds for openai, github_copilot and ollama, the
\* fallback being text-embedding-3-small,
\* github_copilot/text-embedding-3-small and nomic-embed-text; for
\* openrouter the builder emits no embedding section (its vector-store
\* section still carries 1536).
C8_NoEmbedderForOpenRouter ==
    /\ (Built /\ Provider \in {"openai", "github_copilot", "ollama"}) =>
          /\ EmbedderAsClaimed
          /\ Cfg.embedder.provider = Provider
          /\ ~Truthy(Before("EMBEDDING_MODEL_CHOICE")) =>
                Cfg.embedder.config.model = EmbedderFallback(Provider)
    /\ (Built /\ Provider = "openrouter") =>
          /\ ~HasSection("embedder")
          /\ Cfg.vector_store.config.embedding_model_dims = 1536

\* ollama with no embedding model chosen: nomic-embed-text, 768.
C8_Witness ==
    /\ Built
    /\ Provider = "ollama"
    /\ Before("EMBEDDING_MODEL_CHOICE") = None
    /\ Cfg.embedder.config.model = "nomic-embed-text"
    /\ Cfg.embedder.config.embedding_dims = 768

\* The variable held a non-empty value before the run and holds the same
\* value after it.
Kept(v) == Truthy(Before(v)) => environ[v] = Before(v)

\* C9 as stated: a credential variable the builder can write
\* (OPENAI_API_KEY, OPENROUTER_API_KEY) that holds a non-empty value before
\* the builder runs holds the same value afterwards.
C9_Original ==
    Built => (Kept("OPENAI_API_KEY") /\ Kept("OPENROUTER_API_KEY"))

\* C9 as amended: OPENAI_API_KEY is never overwritten; OPENROUTER_API_KEY
\* is kept except when the provider is openrouter and an API key is
\* supplied, and then it is set to the supplied key whatever it held.
C9_OnlyOpenAiKeyIsKept ==
    Built =>
        /\ Kept("OPENAI_API_KEY")
        /\ IF Provider = "openrouter" /\ Truthy(Before("LLM_API_KEY"))
           THEN environ["OPENROUTER_API_KEY"] = Before("LLM_API_KEY")
           ELSE environ["OPENROUTER_API_KEY"] = Before("OPENROUTER_API_KEY")

\* openai, a key supplied, OPENAI_API_KEY already set: left as it was.
C9_Witness ==
    /\ Built
    /\ Provider = "openai"
    /\ Before("LLM_API_KEY") = "sk-new"
    /\ Before("OPENAI_API_KEY") = "sk-old"
    /\ environ["OPENAI_API_KEY"] = "sk-old"

\* A provider is selected, a key is supplied and OPENAI_API_KEY is unset or
\* empty.
KeyToPropagate ==
    /\ Built
    /\ Provider \in SupportedProviders
    /\ Truthy(Before("LLM_API_KEY"))
    /\ ~Truthy(Before("OPENAI_API_KEY"))

\* C10 as stated: whenever the builder runs with an API key supplied and
\* OPENAI_API_KEY unset or empty, OPENAI_API_KEY equals the supplied key
\* afterwards, whichever provider is selected.
C10_Original ==
    KeyToPropagate => environ["OPENAI_API_KEY"] = Before("LLM_API_KEY")

\* C10 as amended: that holds when the provider is openai or openrouter;
\* for github_copilot and ollama OPENAI_API_KEY is left as it was.
C10_PropagatedForOpenAiAndOpenRouter ==
    KeyToPropagate =>
        IF Provider \in {"openai", "openrouter"}
        THEN environ["OPENAI_API_KEY"] = Before("LLM_API_KEY")
        ELSE environ["OPENAI_API_KEY"] = Before("OPENAI_API_KEY")

\* openrouter, a key supplied, OPENAI_API_KEY unset: set to the key.
C10_Witness ==
    /\ KeyToPropagate
    /\ Provider = "openrouter"
    /\ Before("OPENAI_API_KEY") = None
    /\ environ["OPENAI_API_KEY"] = "sk-new"

(***************************************************************************)
(* Properties of the read-only commands of qdrant_manager.py (SpecQdrant). *)
(***************************************************************************)
\* collection-info asked the server about a collection that does not exist.
InfoOnMissingCollection ==
    /\ qop.cmd = "collection_info"
    /\ qop.log # <<>>
    /\ ~Exists(qop.before, qop.collection_name)

\* C11: when collection-info asks the server about a collection that does
\* not exist, the server's error is caught: the command returns normally
\* having printed its failure message and nothing else, it made the one
\* get_collection call and no mutating call, and the database is as it was.
C11_InfoOnMissingCollectionIsCaught ==
    InfoOnMissingCollection =>
        /\ qop.outcome = "returned"
        /\ qop.printed = <<"error_getting_info">>
        /\ CallNames(qop.log) = <<"get_collection">>
        /\ ~qop.log[1].ok
        /\ MutatingCalls = <<>>
        /\ collections = qop.before

\* C11 witness: the server, reachable, answered "not found" for a collection
\* named on the command line, and the command returned.
C11_Witness ==
    /\ InfoOnMissingCollection
    /\ qop.collection_name = "custom"
    /\ qop.outcome = "returned"
    /\ "mem0_memories" \in DOMAIN collections

\* C12: no command lets an exception escape: every command that ran ended
\* by returning, and one in which configuration loading, client construction
\* or an external call failed printed a failure message.
C12_NoExceptionEscapes ==
    qop.cmd # "none" =>
        /\ qop.outcome = "returned"
        /\ ~AllOk(qop.log) => qop.printed # <<>>

(***************************************************************************)
(* Properties of the destructive commands of qdrant_manager.py             *)
(* (SpecQdrant).                                                           *)
(***************************************************************************)
\* delete-collection or clear-collection ran and got as far as deciding
\* whether to ask: the collection was named and the client was built.
DestructiveCommandRan ==
    /\ qop.cmd \in {"delete_collection", "clear_collection"}
    /\ qop.outcome = "returned"
    /\ qop.printed # <<"name_required">>

Yes == {"y", "Y"}

\* C15: without --force, delete-collection and clear-collection ask, and
\* any answer other than 'y' or 'Y' ends the command with no call on the
\* database at all; 'y' and 'Y' let it go on to its database calls.  With
\* --force nothing is asked and the command goes straight on: to
\* delete_collection, or to the scroll that feeds the delete of the points.
C15_MutatesOnlyWhenForcedOrAnsweredYes ==
    /\ (qop.cmd \in {"delete_collection", "clear_collection"}
        /\ MutatingCalls # <<>>) => (qop.force \/ qop.confirm \in Yes)
    /\ DestructiveCommandRan =>
          /\ qop.force <=> qop.confirm = None
          /\ (~qop.force /\ qop.confirm \notin Yes) =>
                /\ qop.log = <<>>
                /\ qop.printed = <<"cancelled">>
                /\ collections = qop.before
          /\ (qop.force \/ qop.confirm \in Yes) =>
                /\ qop.log # <<>>
                /\ qop.cmd = "delete_collection" =>
                      CallNames(qop.log) = <<"delete_collection">>
                /\ qop.cmd = "clear_collection" =>
                      /\ qop.log[1].call = "scroll"
                      /\ (/\ qop.log[1].ok
                          /\ qop.before[qop.collection_name].points # {})
                         => CallNames(qop.log) = <<"scroll", "delete">>

\* C15 witness: clear-collection without --force, answered 'Y', emptied a
\* collection that held points.
C15_Witness ==
    /\ DestructiveCommandRan
    /\ qop.cmd = "clear_collection"
    /\ ~qop.force
    /\ qop.confirm = "Y"
    /\ MutatingCalls # <<>>
    /\ qop.before[qop.collection_name].points = PointIds
    /\ collections[qop.collection_name].points = {}

(***************************************************************************)
(* Properties of the MemoryManager methods (SpecMemory).                   *)
(***************************************************************************)
SingleCallDeletes ==
    {"delete_memory_by_id", "delete_user_memories", "delete_agent_memories",
     "delete_run_memories"}

LastPrinted == mop.printed[Len(mop.printed)]

\* C19: each of the four single-call delete methods makes its one external
\* call once and returns True exactly when that call completed, False when
\* it raised; the error is then reported and the method still returns to
\* its caller.  list_memories makes its one call once and returns the
\* empty list when it raised.
C19_ReturnsWhetherTheCallCompleted ==
    /\ mop.op \in SingleCallDeletes =>
          /\ Len(mop.log) = 1
          /\ mop.log[1].call \in {"delete", "delete_all"}
          /\ mop.result = "True" <=> mop.log[1].ok
          /\ mop.result = "False" <=> ~mop.log[1].ok
          /\ ~mop.log[1].ok => LastPrinted = "error_deleting"
          /\ mop.log[1].ok => LastPrinted = "deleted"
    /\ mop.op = "list_memories" =>
          /\ Len(mop.log) = 1
          /\ mop.result = "list"
          /\ ~mop.log[1].ok =>
                /\ mop.memories_list = <<>>
                /\ LastPrinted = "error_listing"

\* C19 witness: delete_user_memories whose delete_all raised after removing
\* part of the user's memories returned False.
C19_Witness ==
    /\ mop.op = "delete_user_memories"
    /\ ~mop.log[1].ok
    /\ mop.result = "False"
    /\ store # mop.store_before
    /\ Matching(store, "user_id", DEFAULT_USER_ID) # {}

\* The ids of a sequence of calls.
CallIds(calls) == [i \in DOMAIN calls |-> calls[i].id]

ConfirmedSafeDeleteAll == RanSafeDeleteAll /\ mop.confirmation = "DELETE"

\* C20: a confirmed safe_delete_all_memories enumerates the memories of
\* user 'user' with one get_all call and then makes its delete calls in
\* the order of the enumeration, one for each enumerated entry that has an
\* id: the ids deleted are, in order and with repetitions, the ids
\* enumerated, whether or not a delete raised, and nothing else is deleted.
C20_OneDeletePerEnumeratedMemory ==
    ConfirmedSafeDeleteAll =>
        /\ mop.log[1] = GetAllCall("user_id", DEFAULT_USER_ID, TRUE)
        /\ SubSeq(mop.log, 2, Len(mop.log)) = DeleteCalls
        /\ CallIds(DeleteCalls) = SelectSeq(mop.memories_list, Truthy)
        /\ \A i, j \in DOMAIN DeleteCalls :
              i < j => DeleteCalls[i].pos < DeleteCalls[j].pos
        /\ \A i \in DOMAIN DeleteCalls :
              mop.memories_list[DeleteCalls[i].pos] = DeleteCalls[i].id

\* C20 witness: the enumeration names m1 twice and m2 once, the first
\* delete raises, and three deletes are attempted: m1, m1, m2.
C20_Witness ==
    /\ ConfirmedSafeDeleteAll
    /\ mop.memories_list = <<"m1", "m1", "m2">>
    /\ CallIds(DeleteCalls) = <<"m1", "m1", "m2">>
    /\ FailedDeletes = {1}
    /\ mop.deleted_count = 2

(***************************************************************************)
(* Properties of the memory manager's command line (SpecCli).              *)
(***************************************************************************)
\* main() ran with a delete flag selecting its branch and without the
\* identifier that branch requires (absent, or given empty).
DeleteWithoutItsIdentifier ==
    /\ cli.entry = "main"
    /\ Dispatch(cli.flags) \in DOMAIN RequiredArg
    /\ ~Truthy(cli.args[RequiredArg[Dispatch(cli.flags)]])

\* C13: a delete action of the command line run without the identifier it
\* requires ends the process with status 1 after printing an error, and no
\* method of the manager was invoked: no delete or delete_all call was made
\* on the store.
C13_DeleteWithoutIdExits ==
    DeleteWithoutItsIdentifier =>
        /\ cli.exited
        /\ cli.status = 1
        /\ cli.printed[Len(cli.printed)] \in {"id_required", "failed_to_initialize"}
        /\ mop = NoMop

\* C13 witness: --delete-user-memories with an agent id but no user id, on
\* a full store, the client having been built.
C13_Witness ==
    /\ DeleteWithoutItsIdentifier
    /\ cli.branch = "delete_user_memories"
    /\ cli.args.user_id = None
    /\ cli.args.agent_id = "agent-1"
    /\ cli.printed = <<"connected", "id_required">>
    /\ cli.status = 1
    /\ store = MemIds

FilterNames == {"user_id", "agent_id", "run_id"}

GivenFilters(a) == {k \in FilterNames : Truthy(a[k])}

RanListMemories == cli.entry = "main" /\ mop.op = "list_memories"

\* C14: list_memories makes one get_all query; when no user, agent or run
\* identifier is given the query names the user 'user' and nothing else;
\* when one is given the query carries the identifiers exactly as given,
\* so with one filter it is filtered by that identifier alone and the
\* sentinel is not added.
C14_SentinelOnlyWithoutFilter ==
    RanListMemories =>
        LET a == cli.args
            q == mop.log[1]
        IN  /\ Len(mop.log) = 1
            /\ q.call = "get_all"
            /\ mop.args = a
            /\ GivenFilters(a) = {} =>
                  /\ q.user_id = DEFAULT_USER_ID
                  /\ GivenFilters(q) = {"user_id"}
            /\ GivenFilters(a) # {} =>
                  /\ \A k \in FilterNames : q[k] = a[k]
                  /\ GivenFilters(q) = GivenFilters(a)

\* C14 witness: --list-memories --agent-id agent-1 queried the agent's
\* memories only, without a user id, and listed the agent's memory.
C14_Witness ==
    /\ RanListMemories
    /\ cli.args.agent_id = "agent-1"
    /\ cli.args.user_id = None
    /\ mop.log[1].user_id = None
    /\ mop.log[1].agent_id = "agent-1"
    /\ mop.memories_list = <<"m4">>

\* clear-collection went ahead and reported success.
ClearReportedSuccess ==
    /\ qop.cmd = "clear_collection"
    /\ qop.outcome = "returned"
    /\ qop.force \/ qop.confirm \in Yes
    /\ qop.printed \in {<<"cleared_n">>, <<"already_empty">>}

\* C16: after a clear-collection that went ahead and reported success, the
\* collection exists and holds no point, however many it held before.
C16_ClearLeavesNoPoint ==
    ClearReportedSuccess =>
        /\ Exists(collections, qop.collection_name)
        /\ collections[qop.collection_name].points = {}

(***************************************************************************)
(* Properties of the two configuration builders as wholes (SpecBuilder).   *)
(***************************************************************************)
SectionNames == {"llm", "embedder", "vector_store"}

\* C17: whatever the environment holds - provider recognised, unrecognised
\* or absent, model names, API key, base URL and selector present or not -
\* a builder produces a configuration, which always has a vector-store
\* section of one of the two shapes carrying a dimension; settings that
\* are absent appear in it as None (the empty string for the connection
\* string) instead of being rejected.
C17_AlwaysAVectorStoreSection ==
    Built =>
        /\ DOMAIN Cfg \subseteq SectionNames
        /\ HasSection("vector_store")
        /\ QdrantShape(Cfg.vector_store) \/ SupabaseShape(Cfg.vector_store)
        /\ Cfg.vector_store.config.embedding_model_dims \in {768, 1536}
        /\ QdrantShape(Cfg.vector_store) =>
              /\ Cfg.vector_store.config.url = Before("QDRANT_URL")
              /\ Cfg.vector_store.config.api_key = Before("QDRANT_API_KEY")
        /\ SupabaseShape(Cfg.vector_store) =>
              Cfg.vector_store.config.connection_string
                  = getenv_default(build.env_before, "DATABASE_URL", "")
        /\ (HasSection("llm") /\ Provider # "github_copilot") =>
              Cfg.llm.config.model = Before("LLM_CHOICE")

\* C17 witness: an unrecognised provider, no model, the qdrant backend
\* selected without URL or key: the configuration is the vector-store
\* section alone, with None for both.
C17_Witness ==
    /\ build.who = "utils"
    /\ Provider = "anthropic"
    /\ Before("LLM_CHOICE") = None
    /\ Before("VECTOR_STORE_PROVIDER") = "qdrant"
    /\ Before("QDRANT_URL") = None
    /\ DOMAIN Cfg = {"vector_store"}
    /\ Cfg.vector_store.config.url = None
    /\ Cfg.vector_store.config.api_key = None

\* C18: from an environment whose backend selector is not 'qdrant' the
\* builder of src/utils.py and the builder of mem0_memory_manager.py
\* produce the same configuration and leave the same environment behind;
\* the builder that ran produced that configuration and that environment.
C18_BuildersAgreeUnlessQdrant ==
    (Built /\ Before("VECTOR_STORE_PROVIDER") # "qdrant") =>
        /\ utils_get_mem0_client(build.env_before)
             = mgr_get_mem0_client(build.env_before)
        /\ Cfg = utils_get_mem0_client(build.env_before).config
        /\ environ = mgr_get_mem0_client(build.env_before).environ

\* C18 witness: the manager's builder ran for openrouter with the selector
\* 'QDRANT' in capitals; it changed the environment and produced what the
\* other builder produces.
C18_Witness ==
    /\ build.who = "manager"
    /\ Before("VECTOR_STORE_PROVIDER") = "QDRANT"
    /\ Provider = "openrouter"
    /\ environ # build.env_before
    /\ Cfg = utils_get_mem0_client(build.env_before).config
    /\ HasSection("llm") /\ ~HasSection("embedder")

(***************************************************************************)
(* Properties of interactive mode (SpecInteractive).                       *)
(***************************************************************************)
InLoop == cli.branch = "interactive"

\* An iteration has read a choice.
ChoiceRead == InLoop /\ cli.choice # None

\* the numbers the prompt offers: "Enter your choice (1-9)"
Offered == {"1", "2", "3", "4", "5", "6", "7", "8", "9"}

\* The last iteration was given an input outside the menu, or an empty
\* identifier for a choice that asks for one.
NothingChosen ==
    /\ ChoiceRead
    /\ \/ cli.choice \notin Offered
       \/ cli.choice \in DOMAIN PromptedId /\ cli.identifier = ""

\* The iteration called at most the one method its choice stands for, with
\* the identifier typed, on the store the iteration started from.
AtMostTheChosenAction ==
    /\ mop.op \in {"none", MenuAction(cli.choice)}
    /\ mop.op # "none" =>
          /\ mop.store_before = cli.store_before
          /\ mop.args = IF cli.choice \in DOMAIN PromptedId
                        THEN [NoArgs EXCEPT ![PromptedId[cli.choice]] =
                                                cli.identifier]
                        ELSE NoArgs
          /\ mop.op # "safe_delete_all_memories" => Len(mop.log) = 1
    /\ mop.op = "none" => store = cli.store_before

ShowsMenuAgain == ~cli.exited /\ cli.printed[Len(cli.printed)] = "menu"

NoOperation == mop = NoMop /\ store = cli.store_before

\* C21 as stated: the menu has ten choices; an iteration performs at most
\* the action of its choice; an input outside the menu or an empty
\* identifier performs nothing and the menu is shown again; the loop has
\* ended only if the exit choice was entered.
C21_Original ==
    /\ ChoiceRead => Len(Menu) = 10
    /\ ChoiceRead => AtMostTheChosenAction
    /\ NothingChosen => (NoOperation /\ ShowsMenuAgain)
    /\ (InLoop /\ cli.exited) => MenuAction(cli.choice) = "exit"

\* C21: the menu has nine choices, 1 to 9; an iteration performs at most
\* the action of its choice; an input outside the menu ('10' included) or
\* an empty identifier performs nothing and the menu is shown again; after
\* every other iteration too the menu is shown again, and the loop has
\* ended only if the exit choice 9 was entered or an input() call met the
\* end of input, whose EOFError ends the process.
C21_NineChoicesOneActionEach ==
    /\ InLoop => (Len(Menu) = 9 /\ Cardinality(Offered) = Len(Menu))
    /\ ChoiceRead => AtMostTheChosenAction
    /\ NothingChosen => (NoOperation /\ ShowsMenuAgain)
    /\ (InLoop /\ ~cli.exited) => ShowsMenuAgain
    /\ (InLoop /\ cli.exited) =>
          /\ NoOperation
          /\ \/ cli.choice = "9" /\ cli.status = 0 /\ cli.printed = <<"goodbye">>
             \/ cli.choice = None /\ cli.status = 1
                /\ cli.printed = <<"traceback">>

\* C21 witness: after an earlier iteration deleted memory m1, the input
\* '10' did nothing and the menu is shown again.
C21_Witness ==
    /\ NothingChosen
    /\ cli.choice = "10"
    /\ cli.store_before = {"m4", "m5"}
    /\ NoOperation
    /\ cli.printed = <<"invalid_choice", "menu">>
    /\ ~cli.exited


(***************************************************************************)
(* Embedding dimensionality across the builder and the collection script   *)
(* (SpecDeployment).                                                       *)
(***************************************************************************)
\* The last command was create-collection and it created the collection.
CreatedCollection ==
    /\ qop.cmd = "create_collection"
    /\ qop.printed # <<>>
    /\ qop.printed[Len(qop.printed)] = "created"

\* The provider name the collection script reads from the environment the
\* builder ran in (qdrant_manager.py 55).
ScriptProvider == load_env_config(build.env_before).llm_provider

\* C22: for every value of LLM_PROVIDER and whatever EMBEDDING_DIMS is set
\* to, once the utils builder has run, the embedding_dims of the embedder
\* section (when there is one) equals the embedding_model_dims of the
\* vector_store section, that value is get_embedding_dimensions of the
\* provider name, and a collection create-collection created in this
\* environment has that vector size.
C22_DimensionsAgree ==
    (build.who = "utils") =>
        LET dims == Cfg.vector_store.config.embedding_model_dims
        IN  /\ HasSection("embedder")
                  => Cfg.embedder.config.embedding_dims = dims
            /\ dims = get_embedding_dimensions(ScriptProvider)
            /\ CreatedCollection
                  => collections[qop.collection_name].size = dims

\* The builder emitted an embedder section for ollama, EMBEDDING_DIMS is
\* not set (the script's own default for it is 1536), and create-collection
\* created a collection of 768 dimensions.
C22_Witness ==
    /\ build.who = "utils"
    /\ Provider = "ollama"
    /\ Before("EMBEDDING_DIMS") = None
    /\ HasSection("embedder")
    /\ Cfg.embedder.config.embedding_dims = 768
    /\ CreatedCollection
    /\ collections[qop.collection_name].size = 768


(***************************************************************************)
(* Read-only actions of both tools (SpecTools).                            *)
(***************************************************************************)
\* The external calls that change stored data.
DataChangingCalls ==
    {"delete", "delete_all", "create_collection", "delete_collection"}

ReadOnlyCommands ==
    {"list_collections", "collection_info", "count_vectors", "test_connection"}

\* A step that runs one of the five read-only actions.
ReadOnlyStep ==
    \/ mop.op = "none" /\ mop'.op = "list_memories"
    \/ qop.cmd = "none" /\ qop'.cmd \in ReadOnlyCommands

NoMutatingCall(log) == \A i \in DOMAIN log : log[i].call \notin DataChangingCalls

\* C23: a step of list_memories, list-collections, collection-info,
\* count-vectors or test-connection, whether its calls succeed or raise,
\* makes no delete, delete_all, create_collection or delete_collection call
\* and leaves the memory records and the collections with their points
\* as they were.
C23_ReadOnlyActionsMutateNothing ==
    [][ReadOnlyStep => /\ store' = store
                       /\ collections' = collections
                       /\ NoMutatingCall(mop'.log)
                       /\ NoMutatingCall(qop'.log)]_vars

\* list_memories ran on a store holding every memory, its get_all call
\* raised, and every memory is still there.
C23_Witness ==
    /\ mop.op = "list_memories"
    /\ mop.store_before = MemIds
    /\ Len(mop.log) = 1
    /\ ~mop.log[1].ok
    /\ store = MemIds

\* count-vectors ran on a collection that holds points and left them there.
C23_WitnessCount ==
    /\ qop.cmd = "count_vectors"
    /\ qop.cleared = MaxPoints
    /\ collections = qop.before
    /\ \E name \in DOMAIN collections : collections[name].points = PointIds

====
